---- MODULE Spec2Model ----
(***************************************************************************)
(* Model of pr_agent.diff_parser.DiffParser.                               *)
(*                                                                         *)
(* The constructor hands the diff text to unidiff's PatchSet, whose line   *)
(* loop is modelled one physical line per step: the text is a sequence of  *)
(* lines, each line is described by the header pattern it matches at the   *)
(* top level of the loop and by its first character and remainder, which   *)
(* is what the hunk body loop looks at.  Strings that the code slices or   *)
(* strips (file names, line values) are sequences of one-character         *)
(* strings, so that [2:], startswith and rstrip are computed, not assumed. *)
(* The queries of DiffParser are operators over the parsed patch set and   *)
(* actions that record what a call returned.                               *)
(***************************************************************************)
EXTENDS Integers, Sequences, FiniteSets, TLC

VARIABLES
    pc,              \* "parsing" | "ready" | "raised": where the constructor is
    nread,           \* _parse's line counter: lines of diff_text consumed so far
    diff_text,       \* DiffParser.diff_text as far as read: "empty", "whitespace"
                     \* (not empty, nothing but whitespace) or "text"; "None"
                     \* for an argument that is None
    files,           \* the PatchSet list being built by PatchSet._parse
    current_file,    \* index into files of _parse's current_file, 0 for None
    patch_info,      \* _parse's patch_info is not None
    source_file,     \* _parse's local source_file, <<>> while unbound
    in_hunk,         \* control is inside PatchedFile._parse_hunk
    hunk,            \* the Hunk being filled by _parse_hunk
    source_line_no,  \* _parse_hunk's counters
    target_line_no,
    patch_set,       \* DiffParser.patch_set: <<>> for None, <<list>> otherwise
    error,           \* message of the exception the constructor raised
    last_call,       \* the last query served and what it returned
    environ,         \* os.environ, the .env file and the YAML config file
    config,          \* ConfigManager.config, <<>> before a ConfigManager exists
    adapter_calls    \* the calls made on the git server adapter, in order

vars == <<pc, nread, diff_text, files, current_file, patch_info, source_file,
          in_hunk, hunk, source_line_no, target_line_no, patch_set, error,
          last_call, environ, config, adapter_calls>>

parse_vars == <<files, current_file, patch_info, source_file, in_hunk, hunk,
                source_line_no, target_line_no>>

cli_vars == <<environ, config, adapter_calls>>

-----------------------------------------------------------------------------
(* Bounds of the model *)

\* lines of the diff text
MaxLines == 6
\* file sections of the diff text
MaxFiles == 2

(* Python's None for an optional line number *)
None == -1

-----------------------------------------------------------------------------
(* Strings *)

NL == "\n"

DEV_NULL == <<"/", "d", "e", "v", "/", "n", "u", "l", "l">>

\* s[2:]
DropTwo(s) == SubSeq(s, 3, Len(s))

\* s.startswith(p)
StartsWith(s, p) == Len(s) >= Len(p) /\ SubSeq(s, 1, Len(p)) = p

\* s.rstrip("\n")
RECURSIVE RStripNL(_)
RStripNL(s) ==
    IF Len(s) > 0 /\ s[Len(s)] = NL THEN RStripNL(SubSeq(s, 1, Len(s) - 1)) ELSE s

-----------------------------------------------------------------------------
(* The lines a diff text is made of *)

\* "x.py" and "y.go", and the same behind git's a/ and b/ prefixes
NameX == <<"x", ".", "p", "y">>
NameY == <<"y", ".", "g", "o">>
A(name) == <<"a", "/">> \o name
B(name) == <<"b", "/">> \o name

SourceNames == {A(NameX), DEV_NULL}
TargetNames == {B(NameX), DEV_NULL}
GitPairs    == {<<A(NameX), B(NameX)>>, <<A(NameX), B(NameY)>>}
HunkHeaders == {<<1, 1, 1, 1>>, <<0, 0, 1, 1>>, <<1, 1, 0, 0>>, <<2, 1, 2, 2>>}
\* "+def f", "+", "-def f", " def f": marker and content
DefF   == <<"d", "e", "f", " ", "f">>
Bodies == {<<"+", DefF>>, <<"+", <<>> >>, <<"-", DefF>>, <<" ", DefF>>}

\* LINE_VALUE_NO_NEWLINE, " No newline at end of file": the space, and the
\* words written as one symbol
NO_NEWLINE_TEXT == <<" ", "N">>

Line0(kind, first, rest) ==
    [kind |-> kind, first |-> first, rest |-> rest,
     src |-> <<>>, tgt |-> <<>>, hdr |-> <<0, 0, 0, 0>>]

\* "diff --git a/x b/y"
GitLines == {[Line0("git", "d", <<>>) EXCEPT !.src = p[1], !.tgt = p[2]] : p \in GitPairs}
\* "new file mode 100644", "deleted file mode 100644"
ModeLines == {Line0("newfile", "n", <<>>), Line0("delfile", "d", <<>>)}
\* "--- a/x"
SourceLines == {[Line0("source", "-", <<"-", "-", " ">> \o n \o <<NL>>) EXCEPT !.src = n]
                  : n \in SourceNames}
\* "+++ b/x"
TargetLines == {[Line0("target", "+", <<"+", "+", " ">> \o n \o <<NL>>) EXCEPT !.tgt = n]
                  : n \in TargetNames}
\* "@@ -1,1 +1,1 @@"
HunkLines == {[Line0("hunk", "@", <<>>) EXCEPT !.hdr = h] : h \in HunkHeaders}
BodyLines == {Line0("body", b[1], b[2] \o <<NL>>) : b \in Bodies}
\* "\ No newline at end of file"
MarkerLines == {Line0("nonewline", "\\", NO_NEWLINE_TEXT \o <<NL>>)}
\* "\n"
BlankLines == {Line0("blank", NL, <<>>)}
\* any other line: "index 12..34", "@@ garbage @@", "rename from x"
InfoLines == {Line0("info", "i", <<>>)}
\* "Binary files a/x.py and b/x.py differ"
BinaryLines == {[Line0("binary", "B", <<>>) EXCEPT !.src = A(NameX), !.tgt = B(NameX)]}

Lines == GitLines \cup ModeLines \cup SourceLines \cup TargetLines \cup HunkLines
         \cup BodyLines \cup MarkerLines \cup BlankLines \cup InfoLines
         \cup BinaryLines

\* characters str.strip() and str.rstrip() remove
Whitespace == {" ", NL}

\* line.strip() is empty
IsWhitespace(line) ==
    /\ line.first \in Whitespace
    /\ \A i \in 1..Len(line.rest) : line.rest[i] \in Whitespace

\* the text with one more line
TextWith(text, line) ==
    IF text = "text" \/ ~IsWhitespace(line) THEN "text" ELSE "whitespace"

\* bool(diff_text.strip())
HasText(text) == text = "text"

-----------------------------------------------------------------------------
(* unidiff objects *)

Line(value, line_type, src_no, tgt_no) ==
    [value |-> value, line_type |-> line_type,
     source_line_no |-> src_no, target_line_no |-> tgt_no]

Hunk(h) ==
    [source_start |-> h[1], source_length |-> h[2],
     target_start |-> h[3], target_length |-> h[4], lines |-> <<>>]

PatchedFile(src, tgt) == [source_file |-> src, target_file |-> tgt, hunks |-> <<>>]

NoHunk == Hunk(<<0, 0, 0, 0>>)

\* faulty variant: a line whose value is only the newline is not taken for added
is_added_NonBlank(line) == line.line_type = "+" /\ line.value # <<NL>>

is_added(line)   == line.line_type = "+"
is_removed(line) == line.line_type = "-"

-----------------------------------------------------------------------------
(* PatchSet._parse and PatchedFile._parse_hunk, one line per step *)

\* The locals of _parse and _parse_hunk, and the PatchSet under construction,
\* are gone once the constructor has returned or raised
DropFrame ==
    /\ nread' = 0
    /\ files' = <<>>
    /\ current_file' = 0
    /\ patch_info' = FALSE
    /\ source_file' = <<>>
    /\ in_hunk' = FALSE
    /\ hunk' = NoHunk
    /\ source_line_no' = 0
    /\ target_line_no' = 0

\* an exception leaves PatchSet(diff_text), and so DiffParser.__init__
Raise(msg) ==
    /\ pc' = "raised"
    /\ error' = msg
    /\ DropFrame

AppendToLastHunk(l) ==
    LET f  == files[current_file]
        n  == Len(f.hunks)
        h2 == [f.hunks[n] EXCEPT !.lines = Append(@, l)]
    IN  /\ files' = [files EXCEPT ![current_file].hunks[n] = h2]
        /\ UNCHANGED <<current_file, patch_info, source_file, in_hunk, hunk,
                       source_line_no, target_line_no, pc, error>>

ParseTop(line) ==
    CASE line.kind = "git" ->
            /\ files' = Append(files, PatchedFile(line.src, line.tgt))
            /\ current_file' = Len(files) + 1
            /\ patch_info' = TRUE
            /\ source_file' = line.src
            /\ UNCHANGED <<in_hunk, hunk, source_line_no, target_line_no, pc, error>>
      [] line.kind = "newfile" ->
            IF current_file = 0 \/ ~patch_info
            THEN Raise("Unexpected new file found")
            ELSE /\ files' = [files EXCEPT ![current_file].source_file = DEV_NULL]
                 /\ UNCHANGED <<current_file, patch_info, source_file, in_hunk, hunk,
                                source_line_no, target_line_no, pc, error>>
      [] line.kind = "delfile" ->
            IF current_file = 0 \/ ~patch_info
            THEN Raise("Unexpected deleted file found")
            ELSE /\ files' = [files EXCEPT ![current_file].target_file = DEV_NULL]
                 /\ UNCHANGED <<current_file, patch_info, source_file, in_hunk, hunk,
                                source_line_no, target_line_no, pc, error>>
      [] line.kind = "source" ->
            /\ source_file' = line.src
            /\ current_file' =
                 IF current_file # 0 /\ files[current_file].source_file # line.src
                 THEN 0
                 ELSE IF current_file # 0 /\ ~patch_info THEN 0 ELSE current_file
            /\ UNCHANGED <<files, patch_info, in_hunk, hunk,
                           source_line_no, target_line_no, pc, error>>
      [] line.kind = "target" ->
            IF current_file # 0 /\ files[current_file].target_file # line.tgt
            THEN Raise("Target without source")
            ELSE IF current_file = 0
            THEN IF source_file = <<>>
                 THEN Raise("UnboundLocalError: source_file")
                 ELSE /\ files' = Append(files, PatchedFile(source_file, line.tgt))
                      /\ current_file' = Len(files) + 1
                      /\ patch_info' = FALSE
                      /\ UNCHANGED <<source_file, in_hunk, hunk,
                                     source_line_no, target_line_no, pc, error>>
            ELSE UNCHANGED <<parse_vars, pc, error>>
      [] line.kind = "hunk" ->
            IF current_file = 0
            THEN Raise("Unexpected hunk found")
            ELSE /\ patch_info' = FALSE
                 /\ in_hunk' = TRUE
                 /\ hunk' = Hunk(line.hdr)
                 /\ source_line_no' = line.hdr[1]
                 /\ target_line_no' = line.hdr[3]
                 /\ UNCHANGED <<files, current_file, source_file, pc, error>>
      [] line.kind = "nonewline" ->
            IF current_file = 0
            THEN Raise("Unexpected marker")
            ELSE IF Len(files[current_file].hunks) = 0
            THEN Raise("Unexpected marker: No newline at end of file")
            ELSE AppendToLastHunk(Line(NO_NEWLINE_TEXT \o <<NL>>, "\\", None, None))
      [] line.kind = "blank" /\ current_file # 0 ->
            IF Len(files[current_file].hunks) = 0
            THEN Raise("Unexpected trailing newline character")
            ELSE AppendToLastHunk(Line(<<NL>>, "", None, None))
      [] line.kind = "binary" ->
            \* a patch info line that RE_BINARY_DIFF matches: it marks the current
            \* file binary, or is a section of its own, and ends the section
            /\ files' = IF patch_info /\ current_file # 0
                         THEN files
                         ELSE Append(files, PatchedFile(line.src, line.tgt))
            /\ current_file' = 0
            /\ patch_info' = FALSE
            /\ source_file' = line.src
            /\ UNCHANGED <<in_hunk, hunk, source_line_no, target_line_no, pc, error>>
      [] OTHER ->
            \* a patch info line
            /\ current_file' = IF patch_info THEN current_file ELSE 0
            /\ patch_info' = TRUE
            /\ UNCHANGED <<files, source_file, in_hunk, hunk,
                           source_line_no, target_line_no, pc, error>>

ExpectedSourceEnd == hunk.source_start + hunk.source_length
ExpectedTargetEnd == hunk.target_start + hunk.target_length

\* self.append(hunk) at the end of _parse_hunk
CloseHunk(h) ==
    /\ files' = [files EXCEPT ![current_file].hunks = Append(@, h)]
    /\ in_hunk' = FALSE
    /\ hunk' = NoHunk
    /\ source_line_no' = 0
    /\ target_line_no' = 0

ParseHunkLine(line) ==
    LET valid == line.first \in {"+", "-", " ", "\\", NL}
        \* RE_HUNK_EMPTY_BODY_LINE: an empty line is a context line
        ltype == IF line.first = NL THEN " " ELSE line.first
        value == IF line.first = NL THEN <<NL>> ELSE line.rest
        sno == IF ltype \in {"-", " "} THEN source_line_no ELSE None
        tno == IF ltype \in {"+", " "} THEN target_line_no ELSE None
        s2  == IF ltype \in {"-", " "} THEN source_line_no + 1 ELSE source_line_no
        t2  == IF ltype \in {"+", " "} THEN target_line_no + 1 ELSE target_line_no
        h2  == [hunk EXCEPT !.lines = Append(@, Line(value, ltype, sno, tno))]
    IN  IF ~valid
        THEN Raise("Hunk diff line expected")
        ELSE IF s2 > ExpectedSourceEnd \/ t2 > ExpectedTargetEnd
        THEN Raise("Hunk is longer than expected")
        ELSE IF s2 = ExpectedSourceEnd /\ t2 = ExpectedTargetEnd
        THEN /\ CloseHunk(h2)
             /\ UNCHANGED <<current_file, patch_info, source_file, pc, error>>
        ELSE /\ hunk' = h2
             /\ source_line_no' = s2
             /\ target_line_no' = t2
             /\ UNCHANGED <<files, current_file, patch_info, source_file, in_hunk,
                            pc, error>>

\* One iteration of the line loop of PatchSet._parse
ReadLine ==
    /\ pc = "parsing"
    /\ ~in_hunk
    /\ nread < MaxLines
    /\ \E line \in Lines :
          /\ ParseTop(line)
          /\ Len(files') <= MaxFiles
          /\ diff_text' = TextWith(diff_text, line)
    /\ pc' = "parsing" => nread' = nread + 1
    /\ UNCHANGED <<patch_set, last_call, cli_vars>>

\* One iteration of the line loop of PatchedFile._parse_hunk
ReadHunkLine ==
    /\ pc = "parsing"
    /\ in_hunk
    /\ nread < MaxLines
    /\ \E line \in Lines :
          /\ ParseHunkLine(line)
          /\ diff_text' = TextWith(diff_text, line)
    /\ pc' = "parsing" => nread' = nread + 1
    /\ UNCHANGED <<patch_set, last_call, cli_vars>>

\* The argument is None: `self.diff_text = diff_text` stores it and
\* diff_text.strip() raises AttributeError before PatchSet is called
StripNone ==
    /\ pc = "parsing"
    /\ nread = 0
    /\ diff_text = "empty"
    /\ diff_text' = "None"
    /\ pc' = "raised"
    /\ error' = "'NoneType' object has no attribute 'strip'"
    /\ UNCHANGED <<nread, parse_vars, patch_set, last_call, cli_vars>>

\* The text ends inside a hunk: _parse_hunk's loop is exhausted
EndInHunk ==
    /\ pc = "parsing"
    /\ in_hunk
    /\ IF source_line_no < ExpectedSourceEnd \/ target_line_no < ExpectedTargetEnd
       THEN /\ Raise("Hunk is shorter than expected")
            /\ UNCHANGED patch_set
       ELSE /\ DropFrame
            /\ pc' = "ready"
            /\ patch_set' = << [files EXCEPT ![current_file].hunks = Append(@, hunk)] >>
            /\ UNCHANGED error
    /\ UNCHANGED <<diff_text, last_call, cli_vars>>

\* The text ends: DiffParser.__init__ stores the PatchSet, or None for a text
\* that is empty after strip()
EndOfText ==
    /\ pc = "parsing"
    /\ ~in_hunk
    /\ pc' = "ready"
    /\ patch_set' = IF HasText(diff_text) THEN <<files>> ELSE <<>>
    /\ DropFrame
    /\ UNCHANGED <<diff_text, error, last_call, cli_vars>>

-----------------------------------------------------------------------------
(* Properties of unidiff's PatchedFile and Hunk that DiffParser reads *)

is_rename(f) ==
    /\ f.source_file # DEV_NULL
    /\ f.target_file # DEV_NULL
    /\ DropTwo(f.source_file) # DropTwo(f.target_file)

path(f) ==
    LET filepath == IF f.source_file = DEV_NULL
                       \/ (is_rename(f) /\ f.target_file # DEV_NULL)
                    THEN f.target_file
                    ELSE f.source_file
    IN  IF StartsWith(filepath, <<"a", "/">>) \/ StartsWith(filepath, <<"b", "/">>)
        THEN DropTwo(filepath)
        ELSE filepath

RECURSIVE CountType(_, _)
CountType(lines, t) ==
    IF lines = <<>> THEN 0
    ELSE (IF lines[1].line_type = t THEN 1 ELSE 0) + CountType(Tail(lines), t)

\* faulty variant: every line that is not removed counts as added
hunk_added_NotRemoved(h) == Len(h.lines) - CountType(h.lines, "-")

hunk_added(h)   == CountType(h.lines, "+")
hunk_removed(h) == CountType(h.lines, "-")

RECURSIVE SumAdded(_)
SumAdded(hunks) ==
    IF hunks = <<>> THEN 0 ELSE hunk_added(hunks[1]) + SumAdded(Tail(hunks))

RECURSIVE SumRemoved(_)
SumRemoved(hunks) ==
    IF hunks = <<>> THEN 0 ELSE hunk_removed(hunks[1]) + SumRemoved(Tail(hunks))

added(f)   == SumAdded(f.hunks)
removed(f) == SumRemoved(f.hunks)

is_added_file(f) ==
    \/ f.source_file = DEV_NULL
    \/ (Len(f.hunks) = 1 /\ f.hunks[1].source_start = 0 /\ f.hunks[1].source_length = 0)

is_removed_file(f) ==
    \/ f.target_file = DEV_NULL
    \/ (Len(f.hunks) = 1 /\ f.hunks[1].target_start = 0 /\ f.hunks[1].target_length = 0)

-----------------------------------------------------------------------------
(* DiffParser *)

\* Python's "a or b" on optional integers: None and 0 are both false
PyOr(a, b) == IF a # None /\ a # 0 THEN a ELSE b

\* bool(self.patch_set)
HasPatchSet(ps) == ps # <<>> /\ Len(ps[1]) > 0

PatchedFiles(ps) == IF ps = <<>> THEN <<>> ELSE ps[1]

change_type_of(line) ==
    IF is_added(line) THEN "added" ELSE IF is_removed(line) THEN "removed" ELSE "context"

LineChange(f, line, position) ==
    [file_path      |-> path(f),
     line_number    |-> PyOr(line.target_line_no, PyOr(line.source_line_no, 0)),
     position       |-> position,
     line_content   |-> RStripNL(line.value),
     change_type    |-> change_type_of(line),
     target_line_no |-> line.target_line_no,
     source_line_no |-> line.source_line_no]

\* the inner loop of _analyze_file over one hunk, entered with the running position
RECURSIVE AnalyzeLines(_, _, _)
AnalyzeLines(f, lines, position) ==
    IF lines = <<>> THEN <<>>
    ELSE <<LineChange(f, lines[1], position + 1)>>
         \o AnalyzeLines(f, Tail(lines), position + 1)

\* faulty variant: the position restarts with every hunk
RECURSIVE AnalyzeHunks_RestartPerHunk(_, _, _)
AnalyzeHunks_RestartPerHunk(f, hunks, position) ==
    IF hunks = <<>> THEN <<>>
    ELSE AnalyzeLines(f, hunks[1].lines, 0)
         \o AnalyzeHunks_RestartPerHunk(f, Tail(hunks), 0)

\* the outer loop of _analyze_file: position runs on from hunk to hunk
RECURSIVE AnalyzeHunks(_, _, _)
AnalyzeHunks(f, hunks, position) ==
    IF hunks = <<>> THEN <<>>
    ELSE AnalyzeLines(f, hunks[1].lines, position)
         \o AnalyzeHunks(f, Tail(hunks), position + Len(hunks[1].lines))

_analyze_file(f) ==
    [file_path       |-> path(f),
     additions       |-> added(f),
     deletions       |-> removed(f),
     is_new_file     |-> is_added_file(f),
     is_deleted_file |-> is_removed_file(f),
     is_renamed      |-> is_rename(f),
     old_path        |-> IF is_rename(f) THEN <<f.source_file>> ELSE <<>>,
     line_changes    |-> AnalyzeHunks(f, f.hunks, 0)]

\* faulty variant: no guard for a patch set of None, iterating None is a TypeError
get_files_NoGuard(ps) ==
    IF ps = <<>> THEN <<"TypeError">>
    ELSE [i \in 1..Len(ps[1]) |-> path(ps[1][i])]

get_files(ps) ==
    IF ~HasPatchSet(ps) THEN <<>>
    ELSE [i \in 1..Len(ps[1]) |-> path(ps[1][i])]

\* index of the first patched file whose path is file_path, 0 for None
_find_file(ps, file_path) ==
    IF ~HasPatchSet(ps) THEN 0
    ELSE LET hits == {i \in 1..Len(ps[1]) : path(ps[1][i]) = file_path}
         IN  IF hits = {} THEN 0 ELSE CHOOSE i \in hits : \A j \in hits : i <= j

\* "not patched_file" for what _find_file returned: None, or a PatchedFile,
\* which is a list of hunks and false when it is empty
NotPatchedFile(ps, i) == i = 0 \/ Len(ps[1][i].hunks) = 0

\* <<>> for None, <<analysis>> otherwise
get_file_analysis(ps, file_path) ==
    IF ~HasPatchSet(ps) THEN <<>>
    ELSE LET i == _find_file(ps, file_path)
         IN  IF NotPatchedFile(ps, i) THEN <<>> ELSE << _analyze_file(ps[1][i]) >>

get_all_file_analyses(ps) ==
    IF ~HasPatchSet(ps) THEN <<>>
    ELSE [i \in 1..Len(ps[1]) |-> _analyze_file(ps[1][i])]

\* faulty variant: every line that is not removed is collected
RECURSIVE AddedInLines_NotRemoved(_, _)
AddedInLines_NotRemoved(lines, position) ==
    IF lines = <<>> THEN <<>>
    ELSE (IF ~is_removed(lines[1])
          THEN << <<position + 1, lines[1].target_line_no, RStripNL(lines[1].value)>> >>
          ELSE <<>>)
         \o AddedInLines_NotRemoved(Tail(lines), position + 1)

\* the inner loop of get_added_lines_with_positions over one hunk
RECURSIVE AddedInLines(_, _)
AddedInLines(lines, position) ==
    IF lines = <<>> THEN <<>>
    ELSE (IF is_added(lines[1])
          THEN << <<position + 1, lines[1].target_line_no, RStripNL(lines[1].value)>> >>
          ELSE <<>>)
         \o AddedInLines(Tail(lines), position + 1)

RECURSIVE AddedInHunks(_, _)
AddedInHunks(hunks, position) ==
    IF hunks = <<>> THEN <<>>
    ELSE AddedInLines(hunks[1].lines, position)
         \o AddedInHunks(Tail(hunks), position + Len(hunks[1].lines))

\* result[file_path] = added_lines
DictSet(d, k, v) == [x \in (DOMAIN d) \cup {k} |-> IF x = k THEN v ELSE d[x]]

EmptyDict == [x \in {} |-> <<>>]

\* faulty variant: the file is entered whether or not it has added lines
RECURSIVE AddedLinesLoop_AlwaysSet(_, _)
AddedLinesLoop_AlwaysSet(fs, result) ==
    IF fs = <<>> THEN result
    ELSE AddedLinesLoop_AlwaysSet(Tail(fs),
                                  DictSet(result, path(fs[1]), AddedInHunks(fs[1].hunks, 0)))

\* the loop of get_added_lines_with_positions over the patched files
RECURSIVE AddedLinesLoop(_, _)
AddedLinesLoop(fs, result) ==
    IF fs = <<>> THEN result
    ELSE LET added_lines == AddedInHunks(fs[1].hunks, 0)
         IN  AddedLinesLoop(Tail(fs),
                            IF added_lines # <<>>
                            THEN DictSet(result, path(fs[1]), added_lines)
                            ELSE result)

get_added_lines_with_positions(ps) ==
    IF ~HasPatchSet(ps) THEN EmptyDict ELSE AddedLinesLoop(ps[1], EmptyDict)

RECURSIVE SumFilesAdded(_)
SumFilesAdded(fs) == IF fs = <<>> THEN 0 ELSE added(fs[1]) + SumFilesAdded(Tail(fs))

RECURSIVE SumFilesRemoved(_)
SumFilesRemoved(fs) == IF fs = <<>> THEN 0 ELSE removed(fs[1]) + SumFilesRemoved(Tail(fs))

\* faulty variant: deletions summed from the added counts
get_statistics_CopyPaste(ps) ==
    IF ~HasPatchSet(ps)
    THEN [files |-> 0, additions |-> 0, deletions |-> 0]
    ELSE [files     |-> Len(ps[1]),
          additions |-> SumFilesAdded(ps[1]),
          deletions |-> SumFilesAdded(ps[1])]

get_statistics(ps) ==
    IF ~HasPatchSet(ps)
    THEN [files |-> 0, additions |-> 0, deletions |-> 0]
    ELSE [files     |-> Len(ps[1]),
          additions |-> SumFilesAdded(ps[1]),
          deletions |-> SumFilesRemoved(ps[1])]

\* s.rstrip()
RECURSIVE RStrip(_)
RStrip(s) ==
    IF Len(s) > 0 /\ s[Len(s)] \in Whitespace THEN RStrip(SubSeq(s, 1, Len(s) - 1)) ELSE s

\* s.lstrip()
RECURSIVE LStrip(_)
LStrip(s) == IF Len(s) > 0 /\ s[1] \in Whitespace THEN LStrip(Tail(s)) ELSE s

\* s.strip()
Strip(s) == LStrip(RStrip(s))

\* "\n".join(strings)
RECURSIVE Join(_)
Join(strings) ==
    IF strings = <<>> THEN <<>>
    ELSE IF Len(strings) = 1 THEN strings[1]
    ELSE strings[1] \o <<NL>> \o Join(Tail(strings))

\* text.split("\n")
RECURSIVE Split(_)
Split(text) ==
    LET nls == {k \in 1..Len(text) : text[k] = NL}
    IN  IF nls = {} THEN <<text>>
        ELSE LET k == CHOOSE x \in nls : \A y \in nls : x <= y
             IN  <<SubSeq(text, 1, k - 1)>> \o Split(SubSeq(text, k + 1, Len(text)))

\* all lines of a patched file, hunk after hunk
RECURSIVE HunkLinesOf(_)
HunkLinesOf(hunks) ==
    IF hunks = <<>> THEN <<>> ELSE hunks[1].lines \o HunkLinesOf(Tail(hunks))

Abs(n) == IF n < 0 THEN -n ELSE n

\* faulty variant: the window is not looked at, every line with a target number
\* is taken
RECURSIVE ContextLoop_NoWindow(_, _, _)
ContextLoop_NoWindow(lines, line_number, context_lines) ==
    IF lines = <<>> THEN <<>>
    ELSE LET line   == lines[1]
             t      == line.target_line_no
             prefix == IF is_added(line) THEN "+" ELSE IF is_removed(line) THEN "-" ELSE " "
         IN  (IF t # None /\ t # 0
              THEN << <<prefix, " ">> \o RStrip(line.value) >>
              ELSE <<>>)
             \o ContextLoop_NoWindow(Tail(lines), line_number, context_lines)

\* the loop of get_modified_lines_context
RECURSIVE ContextLoop(_, _, _)
ContextLoop(lines, line_number, context_lines) ==
    IF lines = <<>> THEN <<>>
    ELSE LET line   == lines[1]
             t      == line.target_line_no
             prefix == IF is_added(line) THEN "+" ELSE IF is_removed(line) THEN "-" ELSE " "
         IN  (IF t # None /\ t # 0 /\ Abs(t - line_number) <= context_lines
              THEN << <<prefix, " ">> \o RStrip(line.value) >>
              ELSE <<>>)
             \o ContextLoop(Tail(lines), line_number, context_lines)

\* <<>> for None, <<text>> otherwise
get_modified_lines_context(ps, file_path, line_number, context_lines) ==
    LET i == _find_file(ps, file_path)
    IN  IF NotPatchedFile(ps, i) THEN <<>>
        ELSE LET target_lines ==
                   ContextLoop(HunkLinesOf(ps[1][i].hunks), line_number, context_lines)
             IN  IF target_lines = <<>> THEN <<>> ELSE << Join(target_lines) >>

is_large_diff(ps, threshold) ==
    get_statistics(ps).additions + get_statistics(ps).deletions > threshold

(* extract_function_changes: the declaration patterns, matched as re.match does *)

\* \w
WordChars == {"a", "b", "c", "d", "e", "f", "g", "h", "i", "j", "k", "l", "m",
              "n", "o", "p", "q", "r", "s", "t", "u", "v", "w", "x", "y", "z",
              "0", "1", "2", "3", "4", "5", "6", "7", "8", "9", "_"}

\* index of the first character at or after i that is not whitespace (\s*)
RECURSIVE SkipSpace(_, _)
SkipSpace(s, i) == IF i <= Len(s) /\ s[i] \in Whitespace THEN SkipSpace(s, i + 1) ELSE i

\* index of the first character at or after i that is not a word character (\w*)
RECURSIVE SkipWord(_, _)
SkipWord(s, i) == IF i <= Len(s) /\ s[i] \in WordChars THEN SkipWord(s, i + 1) ELSE i

LiteralAt(s, i, lit) ==
    i + Len(lit) - 1 <= Len(s) /\ SubSeq(s, i, i + Len(lit) - 1) = lit

\* ^\s*<keyword>\s+(\w+) and, for closing "=", ^\s*<keyword>\s+(\w+)\s*=
\* <<>> for no match, <<group 1>> otherwise
MatchKeyword(s, keyword, closing) ==
    LET i1 == SkipSpace(s, 1)
        i2 == i1 + Len(keyword)
        i3 == SkipSpace(s, i2)
        i4 == SkipWord(s, i3)
        i5 == SkipSpace(s, i4)
    IN  IF /\ LiteralAt(s, i1, keyword)
           /\ i3 > i2
           /\ i4 > i3
           /\ (closing # "" => (i5 <= Len(s) /\ s[i5] = closing))
        THEN << SubSeq(s, i3, i4 - 1) >>
        ELSE <<>>

\* \w+\s+(\w+)\s*\( from index i on
MatchTypeAndName(s, i) ==
    LET e1 == SkipWord(s, i)
        s2 == SkipSpace(s, e1)
        e2 == SkipWord(s, s2)
        s3 == SkipSpace(s, e2)
    IN  IF e1 > i /\ s2 > e1 /\ e2 > s2 /\ s3 <= Len(s) /\ s[s3] = "("
        THEN << SubSeq(s, s2, e2 - 1) >>
        ELSE <<>>

JavaModifiers ==
    << <<"p", "u", "b", "l", "i", "c">>, <<"p", "r", "i", "v", "a", "t", "e">>,
       <<"p", "r", "o", "t", "e", "c", "t", "e", "d">> >>

\* ^\s*(?:public|private|protected)?\s*\w+\s+(\w+)\s*\(
MatchJava(s) ==
    LET i1   == SkipSpace(s, 1)
        mods == {m \in 1..Len(JavaModifiers) : LiteralAt(s, i1, JavaModifiers[m])}
        with == IF mods = {} THEN <<>>
                ELSE LET m == CHOOSE m \in mods : TRUE
                     IN  MatchTypeAndName(s, SkipSpace(s, i1 + Len(JavaModifiers[m])))
    IN  IF with # <<>> THEN with ELSE MatchTypeAndName(s, i1)

Match(pattern, s) ==
    CASE pattern = "py_def"      -> MatchKeyword(s, <<"d", "e", "f">>, "")
      [] pattern = "py_class"    -> MatchKeyword(s, <<"c", "l", "a", "s", "s">>, "")
      [] pattern = "js_function" ->
             MatchKeyword(s, <<"f", "u", "n", "c", "t", "i", "o", "n">>, "")
      [] pattern = "js_const"    -> MatchKeyword(s, <<"c", "o", "n", "s", "t">>, "=")
      [] pattern = "java_method" -> MatchJava(s)
      [] pattern = "go_func"     -> MatchKeyword(s, <<"f", "u", "n", "c">>, "")

\* function_patterns, in the order of the dict
function_patterns ==
    << [ext |-> <<".", "p", "y">>,           patterns |-> <<"py_def", "py_class">>],
       [ext |-> <<".", "j", "s">>,           patterns |-> <<"js_function", "js_const">>],
       [ext |-> <<".", "j", "a", "v", "a">>, patterns |-> <<"java_method">>],
       [ext |-> <<".", "g", "o">>,           patterns |-> <<"go_func">>] >>

EndsWith(s, suffix) ==
    Len(s) >= Len(suffix) /\ SubSeq(s, Len(s) - Len(suffix) + 1, Len(s)) = suffix

\* index into function_patterns of the first extension file_path ends with, 0 for None
file_ext_of(file_path) ==
    LET hits == {k \in 1..Len(function_patterns) : EndsWith(file_path, function_patterns[k].ext)}
    IN  IF hits = {} THEN 0 ELSE CHOOSE k \in hits : \A j \in hits : k <= j

\* the loop over the patterns for one added or removed line
RECURSIVE PatternLoop(_, _)
PatternLoop(patterns, line) ==
    IF patterns = <<>> THEN <<>>
    ELSE LET m == Match(patterns[1], line.value)
         IN  (IF m # <<>>
              THEN << [function_name |-> m[1],
                       change_type   |-> IF is_added(line) THEN "added" ELSE "removed",
                       line_number   |-> PyOr(line.target_line_no, line.source_line_no),
                       content       |-> Strip(line.value)] >>
              ELSE <<>>)
             \o PatternLoop(Tail(patterns), line)

\* faulty variant: context lines are matched like changed lines
RECURSIVE FunctionLoop_AllLines(_, _)
FunctionLoop_AllLines(lines, patterns) ==
    IF lines = <<>> THEN <<>>
    ELSE PatternLoop(patterns, lines[1])
         \o FunctionLoop_AllLines(Tail(lines), patterns)

\* the loop over the hunk lines
RECURSIVE FunctionLoop(_, _)
FunctionLoop(lines, patterns) ==
    IF lines = <<>> THEN <<>>
    ELSE (IF is_added(lines[1]) \/ is_removed(lines[1])
          THEN PatternLoop(patterns, lines[1])
          ELSE <<>>)
         \o FunctionLoop(Tail(lines), patterns)

extract_function_changes(ps, file_path) ==
    LET i == _find_file(ps, file_path)
        k == file_ext_of(file_path)
    IN  IF NotPatchedFile(ps, i) THEN <<>>
        ELSE IF k = 0 THEN <<>>
        ELSE FunctionLoop(HunkLinesOf(ps[1][i].hunks), function_patterns[k].patterns)

-----------------------------------------------------------------------------
(* PRReviewCLI._review_pr: the static analysis step *)

\* Path(file_path).suffix: from the last "." of the file name on, if that is
\* neither its first nor its last character
suffix(file_path) ==
    LET slashes == {k \in 1..Len(file_path) : file_path[k] = "/"}
        start   == IF slashes = {} THEN 0 ELSE CHOOSE k \in slashes : \A j \in slashes : j <= k
        name    == SubSeq(file_path, start + 1, Len(file_path))
        dots    == {k \in 1..Len(name) : name[k] = "."}
        i       == IF dots = {} THEN 0 ELSE CHOOSE k \in dots : \A j \in dots : j <= k
    IN  IF 1 < i /\ i < Len(name) THEN SubSeq(name, i, Len(name)) ELSE <<>>

\* [change.line_content for change in line_changes if change.change_type == "added"]
RECURSIVE AddedContents(_)
AddedContents(line_changes) ==
    IF line_changes = <<>> THEN <<>>
    ELSE (IF line_changes[1].change_type = "added"
          THEN <<line_changes[1].line_content>>
          ELSE <<>>)
         \o AddedContents(Tail(line_changes))

\* the loop over get_files(): the calls of analyze_diff_content it makes
RECURSIVE StaticAnalysisLoop(_, _)
StaticAnalysisLoop(ps, file_paths) ==
    IF file_paths = <<>> THEN <<>>
    ELSE LET file_path     == file_paths[1]
             file_analysis == get_file_analysis(ps, file_path)
             added_content == IF file_analysis = <<>> THEN <<>>
                              ELSE Join(AddedContents(file_analysis[1].line_changes))
         IN  (IF file_analysis # <<>> /\ added_content # <<>>
              THEN << [file_content |-> added_content,
                       file_path    |-> file_path,
                       file_type    |-> suffix(file_path)] >>
              ELSE <<>>)
             \o StaticAnalysisLoop(ps, Tail(file_paths))

\* the calls of the static analyzer; static is
\* "not args.no_static and self.config.analyzers.flake8_enabled"
static_analysis_step(ps, static) ==
    IF static THEN StaticAnalysisLoop(ps, get_files(ps)) ELSE <<>>

-----------------------------------------------------------------------------
(* StaticAnalyzer *)

\* what running an external linter gives: nothing, as when the program is not
\* installed (FileNotFoundError) or finds nothing, or one finding
ToolOutcomes == {"missing", "issue"}
ToolEnvs == [flake8 : ToolOutcomes, bandit : ToolOutcomes, eslint : ToolOutcomes]

\* _get_default_config: which tools are enabled
tools_config == [flake8 |-> TRUE, bandit |-> TRUE, mypy |-> FALSE, eslint |-> TRUE]

AnalysisIssue(tool, file_path) == [tool |-> tool, file_path |-> file_path]

\* the run of a linter: its findings, none when it is missing
RunTool(tool, outcome, relative_path) ==
    IF outcome = "issue" THEN <<AnalysisIssue(tool, relative_path)>> ELSE <<>>

_run_flake8(env, relative_path) == RunTool("flake8", env.flake8, relative_path)
_run_bandit(env, relative_path) == RunTool("bandit", env.bandit, relative_path)
_run_mypy(env, relative_path)   == <<>>
_run_eslint(env, relative_path) == RunTool("eslint", env.eslint, relative_path)

_analyze_python_file(env, relative_path) ==
    (IF tools_config.flake8 THEN _run_flake8(env, relative_path) ELSE <<>>)
    \o (IF tools_config.bandit THEN _run_bandit(env, relative_path) ELSE <<>>)
    \o (IF tools_config.mypy THEN _run_mypy(env, relative_path) ELSE <<>>)

_analyze_javascript_file(env, relative_path) ==
    IF tools_config.eslint THEN _run_eslint(env, relative_path) ELSE <<>>

PyType  == <<".", "p", "y">>
JsTypes == {<<".", "j", "s">>, <<".", "t", "s">>, <<".", "j", "s", "x">>, <<".", "t", "s", "x">>}

\* the content goes to a temporary file, which the linters of the file type
\* read; no other check is run on it
analyze_diff_content(file_content, file_path, file_type, env) ==
    IF file_type = PyType THEN _analyze_python_file(env, file_path)
    ELSE IF file_type \in JsTypes THEN _analyze_javascript_file(env, file_path)
    ELSE <<>>

\* re.search of <word>\s*\( in a line
SearchCall(line, word) ==
    \E i \in 1..Len(line) :
       /\ LiteralAt(line, i, word)
       /\ LET j == SkipSpace(line, i + Len(word))
          IN  j <= Len(line) /\ line[j] = "("

Quotes == {"'", "\""}

\* re.search of <word>\s*=\s*["'][^"']*["'] in a line
SearchAssignment(line, word) ==
    \E i \in 1..Len(line) :
       /\ LiteralAt(line, i, word)
       /\ LET j == SkipSpace(line, i + Len(word))
              k == SkipSpace(line, j + 1)
          IN  /\ j <= Len(line) /\ line[j] = "="
              /\ k <= Len(line) /\ line[k] \in Quotes
              /\ \E e \in (k + 1)..Len(line) : line[e] \in Quotes

\* the codes of the security patterns a line matches, in the order of the
\* list (of its five patterns the two for passwords and eval)
SecurityCodes(line) ==
    (IF SearchAssignment(line, <<"p", "a", "s", "s", "w", "o", "r", "d">>)
     THEN <<"hardcoded_password">> ELSE <<>>)
    \o (IF SearchCall(line, <<"e", "v", "a", "l">>) THEN <<"eval_usage">> ELSE <<>>)

\* the pattern checks over the lines of a file's content
RECURSIVE SecurityLoop(_, _)
SecurityLoop(lines, relative_path) ==
    IF lines = <<>> THEN <<>>
    ELSE [k \in 1..Len(SecurityCodes(lines[1])) |->
             AnalysisIssue("security_patterns", relative_path)]
         \o SecurityLoop(Tail(lines), relative_path)

_run_security_analysis(content, relative_path) ==
    SecurityLoop(Split(content), relative_path)

-----------------------------------------------------------------------------
(* Calls of the queries on a constructed DiffParser *)

\* paths a caller asks about: "x.py", and "a/x.py", which is no file's path
QueryPaths == {NameX, A(NameX)}

\* faulty variant: serving the query uses the patch set up
Call_UsingUp(op, arg, ret) ==
    /\ pc = "ready"
    /\ last_call = <<>>
    /\ last_call' = <<[op |-> op, arg |-> arg, ret |-> ret]>>
    /\ patch_set' = <<>>
    /\ UNCHANGED <<pc, nread, diff_text, parse_vars, error, cli_vars>>

\* A caller calls a query and holds what it returned
Call(op, arg, ret) ==
    /\ pc = "ready"
    /\ last_call = <<>>
    /\ last_call' = <<[op |-> op, arg |-> arg, ret |-> ret]>>
    /\ UNCHANGED <<pc, nread, diff_text, parse_vars, patch_set, error, cli_vars>>

\* The caller drops the returned value and is free to call again
Return ==
    /\ pc = "ready"
    /\ last_call # <<>>
    /\ last_call' = <<>>
    /\ UNCHANGED <<pc, nread, diff_text, parse_vars, patch_set, error, cli_vars>>

\* the queries whose result, a list or a FileAnalysis, the caller changes; the
\* dicts of the other queries are built per call in the same way, and str,
\* bool and None results cannot be changed
MutableResults == {"get_files", "get_file_analysis", "get_all_file_analyses"}

\* The caller changes the object it was given (clears the list or dict, sets
\* fields of the FileAnalysis). Every query builds its result anew from the
\* str, int and bool values of the patch set, so no object of the DiffParser
\* is reached through it
MutateResult ==
    /\ pc = "ready"
    /\ last_call # <<>>
    /\ last_call[1].op \in MutableResults
    /\ ~(last_call[1].op = "get_file_analysis" /\ last_call[1].ret = <<>>)
    /\ last_call' = <<[op |-> "mutated", arg |-> <<>>, ret |-> <<>>]>>
    /\ UNCHANGED <<pc, nread, diff_text, parse_vars, patch_set, error, cli_vars>>

GetFiles == Call("get_files", <<>>, get_files(patch_set))

GetFileAnalysis ==
    \E p \in QueryPaths : Call("get_file_analysis", p, get_file_analysis(patch_set, p))

GetAllFileAnalyses ==
    Call("get_all_file_analyses", <<>>, get_all_file_analyses(patch_set))

GetAddedLinesWithPositions ==
    Call("get_added_lines_with_positions", <<>>,
         get_added_lines_with_positions(patch_set))

GetStatistics == Call("get_statistics", <<>>, get_statistics(patch_set))

\* line numbers and windows a caller asks about
QueryLineNumbers == {2}
QueryWindows == {0, 1}

GetModifiedLinesContext ==
    \E p \in QueryPaths, n \in QueryLineNumbers, w \in QueryWindows :
        Call("get_modified_lines_context", <<p, n, w>>,
             get_modified_lines_context(patch_set, p, n, w))

ExtractFunctionChanges ==
    \E p \in QueryPaths :
        Call("extract_function_changes", p, extract_function_changes(patch_set, p))

\* _review_pr reaches its static analysis step with the parsed diff
ReviewStaticAnalysis ==
    \E static \in BOOLEAN :
        Call("_review_pr", static, static_analysis_step(patch_set, static))

\* thresholds a caller asks about
QueryThresholds == {1}

IsLargeDiff ==
    \E t \in QueryThresholds : Call("is_large_diff", t, is_large_diff(patch_set, t))

-----------------------------------------------------------------------------

Init ==
    /\ pc = "parsing"
    /\ nread = 0
    /\ diff_text = "empty"
    /\ files = <<>>
    /\ current_file = 0
    /\ patch_info = FALSE
    /\ source_file = <<>>
    /\ in_hunk = FALSE
    /\ hunk = NoHunk
    /\ source_line_no = 0
    /\ target_line_no = 0
    /\ patch_set = <<>>
    /\ error = ""
    /\ last_call = <<>>
    /\ environ = <<>>
    /\ config = <<>>
    /\ adapter_calls = <<>>

Next ==
    \/ ReadLine
    \/ ReadHunkLine
    \/ EndInHunk
    \/ EndOfText
    \/ StripNone
    \/ GetFiles
    \/ GetFileAnalysis
    \/ GetAllFileAnalyses
    \/ GetAddedLinesWithPositions
    \/ GetStatistics
    \/ GetModifiedLinesContext
    \/ ExtractFunctionChanges
    \/ IsLargeDiff
    \/ ReviewStaticAnalysis
    \/ MutateResult
    \/ Return

Spec == Init /\ [][Next]_vars

-----------------------------------------------------------------------------
(* Properties *)

Ready == pc = "ready"

\* a call of op has returned and the caller holds the result
Called(op) == last_call # <<>> /\ last_call[1].op = op

Ret == last_call[1].ret
Arg == last_call[1].arg

\* the patched files behind the parser
Parsed == PatchedFiles(patch_set)

\* the FileAnalysis objects the last call returned, if it returns any
ReturnedAnalyses ==
    IF Called("get_all_file_analyses") THEN {Ret[i] : i \in 1..Len(Ret)}
    ELSE IF Called("get_file_analysis") /\ Ret # <<>> THEN {Ret[1]}
    ELSE {}

CountChanges(lc, t) == Cardinality({k \in 1..Len(lc) : lc[k].change_type = t})

\* C1: in every FileAnalysis returned by get_file_analysis or
\* get_all_file_analyses the first line change has position 1 and every next one
\* the previous position plus 1, across the hunks of the file, starting again at
\* 1 for every file.
C1_PositionsConsecutive ==
    \A a \in ReturnedAnalyses :
       /\ Len(a.line_changes) > 0 => a.line_changes[1].position = 1
       /\ \A k \in 1..(Len(a.line_changes) - 1) :
             a.line_changes[k + 1].position = a.line_changes[k].position + 1

\* a returned analysis whose line changes span two hunks of one file
C1_Witness ==
    /\ Called("get_all_file_analyses")
    /\ \E i \in 1..Len(Parsed) :
          /\ Len(Parsed[i].hunks) >= 2
          /\ \A h \in 1..Len(Parsed[i].hunks) : Len(Parsed[i].hunks[h].lines) >= 1
          /\ Len(Ret[i].line_changes) >= 2

\* C2: in every FileAnalysis, additions is the number of line changes of type
\* "added" and deletions the number of type "removed".
C2_CountsMatchLines ==
    \A a \in ReturnedAnalyses :
       /\ a.additions = CountChanges(a.line_changes, "added")
       /\ a.deletions = CountChanges(a.line_changes, "removed")

\* a returned analysis with added, removed and other lines
C2_Witness ==
    /\ Called("get_file_analysis")
    /\ Ret # <<>>
    /\ Ret[1].additions >= 1
    /\ Ret[1].deletions >= 1
    /\ CountChanges(Ret[1].line_changes, "context") >= 1

RECURSIVE SumField(_, _)
SumField(analyses, field) ==
    IF analyses = <<>> THEN 0 ELSE analyses[1][field] + SumField(Tail(analyses), field)

\* C3: get_statistics() returns the sums of additions and of deletions over
\* get_all_file_analyses(), and files is the length of get_files() and of
\* get_all_file_analyses().
C3_StatisticsAreSums ==
    Called("get_statistics") =>
      LET all == get_all_file_analyses(patch_set)
      IN  /\ Ret.additions = SumField(all, "additions")
          /\ Ret.deletions = SumField(all, "deletions")
          /\ Ret.files = Len(get_files(patch_set))
          /\ Ret.files = Len(all)

\* statistics returned for two files that both have changes, one with a removal
C3_Witness ==
    /\ Called("get_statistics")
    /\ Ret.files = 2
    /\ Ret.deletions >= 1
    /\ \A i \in 1..2 : added(Parsed[i]) + removed(Parsed[i]) >= 1

\* the empty result of each query
EmptyResult(op) ==
    CASE op = "get_statistics" -> [files |-> 0, additions |-> 0, deletions |-> 0]
      [] op = "get_added_lines_with_positions" -> EmptyDict
      [] op = "is_large_diff" -> FALSE
      [] OTHER -> <<>>

\* C4: for the empty text and for a text of whitespace only the constructor
\* does not raise, and every query returns its empty result: [] from get_files,
\* get_all_file_analyses and extract_function_changes, zeros from
\* get_statistics, {} from get_added_lines_with_positions, None from
\* get_file_analysis and get_modified_lines_context.
C4_EmptyTextEmptyResults ==
    diff_text \in {"empty", "whitespace"} =>
      /\ pc # "raised"
      /\ last_call # <<>> => Ret = EmptyResult(last_call[1].op)

\* a query answered by a parser built from whitespace only
C4_Witness ==
    /\ diff_text = "whitespace"
    /\ Called("get_files")
    /\ Ret = <<>>

\* C5: a diff of two file sections whose second section has line counts that do
\* not match its hunk body does not make the constructor raise: while the second
\* section's hunk is read, after a first section that was parsed with its hunks,
\* no step raises.
C5_MalformedSecondFileNeverRaises ==
    [][(/\ pc = "parsing"
        /\ in_hunk
        /\ Len(files) = 2
        /\ current_file = 2
        /\ Len(files[1].hunks) >= 1) => pc' # "raised"]_vars

\* the added line changes of an analysis as (position, target line, content)
RECURSIVE AddedTriples(_)
AddedTriples(lc) ==
    IF lc = <<>> THEN <<>>
    ELSE (IF lc[1].change_type = "added"
          THEN << <<lc[1].position, lc[1].target_line_no, lc[1].line_content>> >>
          ELSE <<>>)
         \o AddedTriples(Tail(lc))

\* C6: for every file f in get_added_lines_with_positions(), the list for f is
\* exactly the added line changes of get_file_analysis(f), one entry per added
\* line, in position order, each with that line change's position, target line
\* number and content.
C6_AddedLinesMatchAnalysis ==
    Called("get_added_lines_with_positions") =>
      \A f \in DOMAIN Ret :
         /\ get_file_analysis(patch_set, f) # <<>>
         /\ Ret[f] = AddedTriples(get_file_analysis(patch_set, f)[1].line_changes)

\* C7: a path is a key of get_added_lines_with_positions() exactly if a file of
\* that path has at least one added line, and no key has an empty list.
C7_KeysAreFilesWithAddedLines ==
    Called("get_added_lines_with_positions") =>
      LET all == get_all_file_analyses(patch_set)
          withAdded == {all[i].file_path :
                          i \in {j \in 1..Len(all) :
                                   CountChanges(all[j].line_changes, "added") >= 1}}
      IN  /\ DOMAIN Ret = withAdded
          /\ \A f \in DOMAIN Ret : Ret[f] # <<>>

\* the mapping returned for two files of which only one has added lines
C7_Witness ==
    /\ Called("get_added_lines_with_positions")
    /\ Len(Parsed) = 2
    /\ path(Parsed[1]) # path(Parsed[2])
    /\ \A i \in 1..2 : Len(Parsed[i].hunks) >= 1
    /\ Cardinality(DOMAIN Ret) = 1

\* C8: every line change has a source or a target line number: added lines a
\* target and no source number, removed lines a source and no target number,
\* context lines both.
C8_LineNumbersPresent ==
    \A a \in ReturnedAnalyses :
       \A k \in 1..Len(a.line_changes) :
          LET c == a.line_changes[k]
          IN  /\ c.change_type = "added" =>
                   (c.target_line_no # None /\ c.source_line_no = None)
              /\ c.change_type = "removed" =>
                   (c.source_line_no # None /\ c.target_line_no = None)
              /\ c.change_type = "context" =>
                   (c.source_line_no # None /\ c.target_line_no # None)

\* C9: get_files() returns the paths of the file sections in the order of the
\* text, and no path twice.
C9_FilesOnceInOrder ==
    Called("get_files") =>
      /\ Len(Ret) = Len(Parsed)
      /\ \A i \in 1..Len(Ret) : Ret[i] = path(Parsed[i])
      /\ \A i, j \in 1..Len(Ret) : i # j => Ret[i] # Ret[j]

\* C10: get_file_analysis(path) is None for a path that is no file's path, and
\* for the path at any place of get_files() it is the analysis at that place of
\* get_all_file_analyses(), with that path as its file_path.
C10_LookupMatchesEntry ==
    Called("get_file_analysis") =>
      LET fs  == get_files(patch_set)
          all == get_all_file_analyses(patch_set)
      IN  /\ (\A i \in 1..Len(fs) : fs[i] # Arg) => Ret = <<>>
          /\ \A i \in 1..Len(fs) :
                fs[i] = Arg => (Ret = <<all[i]>> /\ Ret[1].file_path = Arg)


-----------------------------------------------------------------------------
(* One file section *)

\* the lines of all hunks of a patched file whose marker is t, as places
\* <<hunk, line>>
LinesOfType(f, t) ==
    {hk \in (1..Len(f.hunks)) \X (1..MaxLines) :
        /\ hk[2] <= Len(f.hunks[hk[1]].lines)
        /\ f.hunks[hk[1]].lines[hk[2]].line_type = t}

\* the diff has one section, of a file that exists before and after
SingleExistingFile ==
    /\ Ready
    /\ Len(Parsed) = 1
    /\ Parsed[1].source_file # DEV_NULL
    /\ Parsed[1].target_file # DEV_NULL

\* the name of the file after the change, without git's prefix
NewName(f) == DropTwo(f.target_file)

\* the number of entries a caller finds under a path, none when the path is
\* not a key
Entries(d, p) == IF p \in DOMAIN d THEN Len(d[p]) ELSE 0

-----------------------------------------------------------------------------
(* Renamed, new and deleted files *)

\* the name of the file before the change, without git's prefix
OldName(f) == DropTwo(f.source_file)

\* a section that gives the file another name and has no hunks
RenameWithoutChanges(f) ==
    /\ f.source_file # DEV_NULL
    /\ f.target_file # DEV_NULL
    /\ OldName(f) # NewName(f)
    /\ Len(f.hunks) = 0

\* C13: the FileAnalysis of a rename with no line changes has is_renamed true,
\* old_path equal to the prior path without the a/ or b/ prefix, additions 0 and
\* deletions 0; and in every FileAnalysis old_path is set exactly when
\* is_renamed is true.
C13_RenameRecorded ==
    Called("get_all_file_analyses") =>
       \A i \in 1..Len(Ret) :
          /\ (Ret[i].old_path # <<>>) <=> Ret[i].is_renamed
          /\ RenameWithoutChanges(Parsed[i]) =>
                /\ Ret[i].is_renamed
                /\ Ret[i].old_path = <<OldName(Parsed[i])>>
                /\ Ret[i].additions = 0
                /\ Ret[i].deletions = 0

\* C14: a section whose old path is /dev/null gives is_new_file true and
\* is_deleted_file false, additions equal to its number of added lines and
\* deletions 0; a section whose new path is /dev/null gives is_deleted_file
\* true; a section with neither gives both flags false.
C14_NewAndDeletedFlags ==
    Called("get_all_file_analyses") =>
       \A i \in 1..Len(Ret) :
          /\ Parsed[i].source_file = DEV_NULL =>
                /\ Ret[i].is_new_file
                /\ ~Ret[i].is_deleted_file
                /\ Ret[i].additions = Cardinality(LinesOfType(Parsed[i], "+"))
                /\ Ret[i].deletions = 0
          /\ Parsed[i].target_file = DEV_NULL => Ret[i].is_deleted_file
          /\ (Parsed[i].source_file # DEV_NULL /\ Parsed[i].target_file # DEV_NULL) =>
                (~Ret[i].is_new_file /\ ~Ret[i].is_deleted_file)

-----------------------------------------------------------------------------
(* Context of a line *)

\* the marker a diff puts before a line of this kind
PrefixOf(line) ==
    IF line.line_type = "+" THEN "+" ELSE IF line.line_type = "-" THEN "-" ELSE " "

\* the hunk lines of the section found for path p whose target line number is
\* within w of n, in position order
LinesNear(p, n, w) ==
    LET i == _find_file(patch_set, p)
        near(l) == l.target_line_no # None /\ Abs(l.target_line_no - n) <= w
    IN  IF i = 0 THEN <<>> ELSE SelectSeq(HunkLinesOf(Parsed[i].hunks), near)

-----------------------------------------------------------------------------
(* Queries on diffs of one section with one hunk, over more file names and
   more line contents than the parser's alphabet has *)

\* lines of the hunk
MaxHunkLines == 2

\* "m.js", "j.java", "r.md"
NameJs   == <<"m", ".", "j", "s">>
NameJava == <<"j", ".", "j", "a", "v", "a">>
NameMd   == <<"r", ".", "m", "d">>
SectionNames == {NameX, NameY, NameJs, NameJava, NameMd}

\* "class c", "function g", "const k =", "public int h(", "func q", "x"
ClassC    == <<"c", "l", "a", "s", "s", " ", "c">>
FunctionG == <<"f", "u", "n", "c", "t", "i", "o", "n", " ", "g">>
ConstK    == <<"c", "o", "n", "s", "t", " ", "k", " ", "=">>
PublicH   == <<"p", "u", "b", "l", "i", "c", " ", "i", "n", "t", " ", "h", "(">>
FuncQ     == <<"f", "u", "n", "c", " ", "q">>
PlainX    == <<"x">>
\* "password = 'x'", "eval(x)"
PasswordX == <<"p", "a", "s", "s", "w", "o", "r", "d", " ", "=", " ", "'", "x", "'">>
EvalX     == <<"e", "v", "a", "l", "(", "x", ")">>
Declarations == {DefF, ClassC, FunctionG, ConstK, PublicH, FuncQ}
SectionContents == Declarations \cup {PlainX, PasswordX, EvalX}
\* declarations, a plain line and a blank line added and removed, a
\* declaration as context, and the two lines for the analyzer added
SectionBodies ==
    ({"+", "-"} \X (Declarations \cup {PlainX, <<>>}))
    \cup {<<" ", DefF>>, <<"+", PasswordX>>, <<"+", EvalX>>}

\* the hunk lines unidiff makes of the body lines, numbered from s and t on
RECURSIVE NumberedLines(_, _, _)
NumberedLines(bodies, s, t) ==
    IF bodies = <<>> THEN <<>>
    ELSE LET m == bodies[1][1]
         IN  <<Line(bodies[1][2] \o <<NL>>, m,
                    IF m \in {"-", " "} THEN s ELSE None,
                    IF m \in {"+", " "} THEN t ELSE None)>>
             \o NumberedLines(Tail(bodies),
                              IF m \in {"-", " "} THEN s + 1 ELSE s,
                              IF m \in {"+", " "} THEN t + 1 ELSE t)

\* PatchSet of "--- a/name", "+++ b/name", "@@ -1,k +1,l @@" and the body lines
OneSection(name, bodies) ==
    LET k == Cardinality({i \in 1..Len(bodies) : bodies[i][1] \in {"-", " "}})
        l == Cardinality({i \in 1..Len(bodies) : bodies[i][1] \in {"+", " "}})
        h == [Hunk(<<1, k, 1, l>>) EXCEPT !.lines = NumberedLines(bodies, 1, 1)]
    IN  << [PatchedFile(A(name), B(name)) EXCEPT !.hunks = <<h>>] >>

SectionPatchSets ==
    {OneSection(name, bodies) :
        name \in SectionNames,
        bodies \in UNION {[1..n -> SectionBodies] : n \in 1..MaxHunkLines}}

\* a DiffParser constructed from one of these diffs
InitSection ==
    /\ pc = "ready"
    /\ nread = 0
    /\ diff_text = "text"
    /\ files = <<>>
    /\ current_file = 0
    /\ patch_info = FALSE
    /\ source_file = <<>>
    /\ in_hunk = FALSE
    /\ hunk = NoHunk
    /\ source_line_no = 0
    /\ target_line_no = 0
    /\ patch_set \in {<<ps>> : ps \in SectionPatchSets}
    /\ error = ""
    /\ last_call = <<>>
    /\ environ = <<>>
    /\ config = <<>>
    /\ adapter_calls = <<>>

\* the path of the section, and "a/x.py", which is no section's path
ExtractFunctionChangesOfSection ==
    \E p \in {path(patch_set[1][1]), A(NameX)} :
        Call("extract_function_changes", p, extract_function_changes(patch_set, p))

\* the calls of a sequence of calls
Calls(calls) == {calls[k] : k \in 1..Len(calls)}

\* the review's static analysis step calls the analyzer with the section's
\* added content, in an environment where each linter is missing or not
AnalyzeDiffContentOfSection ==
    \E call \in Calls(static_analysis_step(patch_set, TRUE)) :
       \E env \in ToolEnvs :
          Call("analyze_diff_content",
               [file_content |-> call.file_content,
                file_path    |-> call.file_path,
                file_type    |-> call.file_type,
                env          |-> env],
               analyze_diff_content(call.file_content, call.file_path,
                                    call.file_type, env))

NextSection ==
    \/ ExtractFunctionChangesOfSection
    \/ AnalyzeDiffContentOfSection
    \/ GetAllFileAnalyses
    \/ GetAddedLinesWithPositions
    \/ GetStatistics
    \/ Return

SpecSection == InitSection /\ [][NextSection]_vars

\* the name a line content declares in a file of path p, by the language of
\* the path's extension: <<>> for none
DeclaredIn(p, content) ==
    CASE EndsWith(p, <<".", "p", "y">>) /\ content = DefF        -> << <<"f">> >>
      [] EndsWith(p, <<".", "p", "y">>) /\ content = ClassC      -> << <<"c">> >>
      [] EndsWith(p, <<".", "j", "s">>) /\ content = FunctionG   -> << <<"g">> >>
      [] EndsWith(p, <<".", "j", "s">>) /\ content = ConstK      -> << <<"k">> >>
      [] EndsWith(p, <<".", "j", "a", "v", "a">>) /\ content = PublicH -> << <<"h">> >>
      [] EndsWith(p, <<".", "g", "o">>) /\ content = FuncQ       -> << <<"q">> >>
      [] OTHER -> <<>>

\* the records the added and removed lines that declare something give, in
\* hunk-line order
RECURSIVE DeclarationChanges(_, _)
DeclarationChanges(lines, p) ==
    IF lines = <<>> THEN <<>>
    ELSE LET l == lines[1]
             d == DeclaredIn(p, Strip(l.value))
         IN  (IF l.line_type \in {"+", "-"} /\ d # <<>>
              THEN << [function_name |-> d[1],
                       change_type   |-> IF l.line_type = "+" THEN "added" ELSE "removed",
                       line_number   |-> IF l.line_type = "+" THEN l.target_line_no
                                        ELSE l.source_line_no,
                       content       |-> Strip(l.value)] >>
              ELSE <<>>)
             \o DeclarationChanges(Tail(lines), p)

\* C16: extract_function_changes(path) returns the empty list when the path is
\* not in the diff or its extension is not a supported one; otherwise it returns
\* one record for each added or removed line that declares something in the
\* language of the extension, in hunk-line order, with change_type "added" and
\* the target line number for an added line, "removed" and the source line
\* number for a removed line; context lines and other lines give no record.
C16_FunctionChanges ==
    Called("extract_function_changes") =>
       LET i == _find_file(patch_set, Arg)
       IN  IF i = 0 THEN Ret = <<>>
           ELSE Ret = DeclarationChanges(HunkLinesOf(Parsed[i].hunks), Arg)

\* a removed and an added declaration returned in hunk order
C16_Witness ==
    /\ Called("extract_function_changes")
    /\ Len(Ret) = 2
    /\ Ret[1].change_type = "removed"
    /\ Ret[2].change_type = "added"
    /\ Ret[1].line_number = 1
    /\ Ret[2].line_number = 1

-----------------------------------------------------------------------------
(* The parsed state under queries *)

-----------------------------------------------------------------------------
(* Sections without hunks *)

\* the file sections that have no hunks: a binary section, a rename or a mode
\* change without content change
WithoutHunks == {i \in 1..Len(Parsed) : Len(Parsed[i].hunks) = 0}

\* the sections that share the path of section i
SamePath(i) == {j \in 1..Len(Parsed) : path(Parsed[j]) = path(Parsed[i])}

\* C18: a file section with no hunks is in get_files() and counted in
\* get_statistics()['files'], its FileAnalysis (from get_all_file_analyses and
\* from get_file_analysis of its path) has empty line_changes and additions =
\* deletions = 0, and it gives no key to get_added_lines_with_positions().
C18_SectionWithoutHunks ==
    \A i \in WithoutHunks :
       /\ Called("get_files") => (Len(Ret) = Len(Parsed) /\ Ret[i] = path(Parsed[i]))
       /\ Called("get_statistics") => Ret.files = Len(Parsed)
       /\ Called("get_all_file_analyses") =>
             /\ Ret[i].line_changes = <<>>
             /\ Ret[i].additions = 0
             /\ Ret[i].deletions = 0
       /\ (Called("get_file_analysis") /\ Arg = path(Parsed[i]) /\ SamePath(i) = {i}) =>
             /\ Ret # <<>>
             /\ Ret[1].line_changes = <<>>
             /\ Ret[1].additions = 0
             /\ Ret[1].deletions = 0
       /\ (Called("get_added_lines_with_positions") /\ SamePath(i) = {i}) =>
             path(Parsed[i]) \notin DOMAIN Ret

-----------------------------------------------------------------------------
(* The static analysis step of the review *)

\* the contents of the added lines of the sections of path p, in diff order
RECURSIVE AddedContentOf(_, _)
AddedContentOf(fs, p) ==
    IF fs = <<>> THEN <<>>
    ELSE LET ls == HunkLinesOf(fs[1].hunks)
             isAdded(l) == l.line_type = "+"
             plus == SelectSeq(ls, isAdded)
         IN  (IF path(fs[1]) = p THEN [k \in 1..Len(plus) |-> RStripNL(plus[k].value)]
              ELSE <<>>)
             \o AddedContentOf(Tail(fs), p)

\* C19: with static analysis enabled, the review calls the static analyzer at
\* most once for each file of the diff, with the contents of the file's added
\* lines joined by newlines in position order, the file's path and the
\* extension of the path, and it calls it for every file that has at least one
\* added line.
C19_StaticAnalyzerCalls ==
    (Called("_review_pr") /\ Arg) =>
       /\ \A j, k \in 1..Len(Ret) : j # k => Ret[j].file_path # Ret[k].file_path
       /\ \A k \in 1..Len(Ret) :
             /\ \E i \in 1..Len(Parsed) : path(Parsed[i]) = Ret[k].file_path
             /\ Ret[k].file_content = Join(AddedContentOf(Parsed, Ret[k].file_path))
             /\ Ret[k].file_type = suffix(Ret[k].file_path)
       /\ \A i \in 1..Len(Parsed) :
             AddedContentOf(Parsed, path(Parsed[i])) # <<>> =>
                \E k \in 1..Len(Ret) : Ret[k].file_path = path(Parsed[i])

-----------------------------------------------------------------------------
(* The static analyzer on diff content *)

\* C20: for Python content with a line that matches a security pattern (a
\* hardcoded password assignment or an eval( call), analyze_diff_content
\* returns a non-empty list with at least one issue whose tool is
\* 'security_patterns', with or without the external linters installed.
C20_SecurityPatternsApplied ==
    (/\ Called("analyze_diff_content")
     /\ Arg.file_type = PyType
     /\ _run_security_analysis(Arg.file_content, Arg.file_path) # <<>>) =>
       /\ Ret # <<>>
       /\ \E k \in 1..Len(Ret) : Ret[k].tool = "security_patterns"

-----------------------------------------------------------------------------
(* Configuration: pr_agent.config *)

\* An Optional[str] is <<>> for None (an unset variable, a missing key) and
\* <<s>> for the string s; a float is counted in tenths.

\* bool(v) of an Optional[str]
Truthy(v) == v # <<>> /\ v[1] # ""

GitServerConfig == [token |-> <<>>, enabled |-> TRUE]

AnalyzerConfig ==
    [flake8_enabled     |-> TRUE,
     eslint_config_file |-> <<>>,
     ai_enabled         |-> TRUE,
     ai_model           |-> "gemini-1.5-flash",
     ai_temperature     |-> 1,
     ai_max_tokens      |-> 2000]

ReviewConfig ==
    [post_summary             |-> TRUE,
     post_inline_comments     |-> TRUE,
     max_inline_comments      |-> 20,
     max_diff_size            |-> 50000,
     min_confidence_threshold |-> 7]

PRAgentConfig ==
    [github         |-> GitServerConfig,
     gitlab         |-> GitServerConfig,
     bitbucket      |-> GitServerConfig,
     analyzers      |-> AnalyzerConfig,
     review         |-> ReviewConfig,
     gemini_api_key |-> <<>>,
     debug          |-> FALSE,
     verbose        |-> FALSE]

\* setattr(obj, key, value) for each item of a dict, on the keys obj has
RECURSIVE SetAttrs(_, _, _)
SetAttrs(obj, data, keys) ==
    IF keys = {} THEN obj
    ELSE LET key == CHOOSE k \in keys : TRUE
         IN  SetAttrs(IF key \in DOMAIN obj THEN [obj EXCEPT ![key] = data[key]] ELSE obj,
                      data, keys \ {key})

\* data is the dict yaml.safe_load gave: its sections are dicts
_dict_to_config(data) ==
    LET c1 == IF "github" \in DOMAIN data
              THEN [PRAgentConfig EXCEPT !.github =
                       [token   |-> IF "token" \in DOMAIN data.github
                                    THEN data.github.token ELSE <<>>,
                        enabled |-> IF "enabled" \in DOMAIN data.github
                                    THEN data.github.enabled ELSE TRUE]]
              ELSE PRAgentConfig
        c2 == IF "analyzers" \in DOMAIN data
              THEN [c1 EXCEPT !.analyzers =
                       SetAttrs(@, data.analyzers, DOMAIN data.analyzers)]
              ELSE c1
    IN  IF "review" \in DOMAIN data
        THEN [c2 EXCEPT !.review = SetAttrs(@, data.review, DOMAIN data.review)]
        ELSE c2

\* fs maps the paths that exist to what yaml.safe_load reads from them, <<>>
\* for a file that is no YAML mapping: the exception gives the defaults
_load_from_file(fs, config_file) ==
    IF fs[config_file] = <<>> THEN PRAgentConfig ELSE _dict_to_config(fs[config_file][1])

\* int(s) of the strings of the model: <<>> for ValueError
int(s) == IF s = "1" THEN <<1>> ELSE IF s = "3" THEN <<3>> ELSE <<>>

\* s.lower() of the strings of the model
lower(s) == IF s \in {"True", "TRUE", "true"} THEN "true" ELSE s

\* os maps every variable to its value, <<>> when it is not set
_load_from_environment(c, os) ==
    LET c1 == [c EXCEPT !.github.token    = os["GITHUB_TOKEN"],
                        !.gitlab.token    = os["GITLAB_TOKEN"],
                        !.bitbucket.token = os["BITBUCKET_APP_PASSWORD"],
                        !.gemini_api_key  = os["GEMINI_API_KEY"]]
        c2 == IF Truthy(os["DEFAULT_AI_MODEL"])
              THEN [c1 EXCEPT !.analyzers.ai_model = os["DEFAULT_AI_MODEL"][1]]
              ELSE c1
        c3 == IF Truthy(os["MAX_DIFF_SIZE"]) /\ int(os["MAX_DIFF_SIZE"][1]) # <<>>
              THEN [c2 EXCEPT !.review.max_diff_size = int(os["MAX_DIFF_SIZE"][1])[1]]
              ELSE c2
    IN  IF Truthy(os["ENABLE_INLINE_COMMENTS"])
        THEN [c3 EXCEPT !.review.post_inline_comments =
                            lower(os["ENABLE_INLINE_COMMENTS"][1]) = "true"]
        ELSE c3

_load_config(env, config_file) ==
    _load_from_environment(
        IF config_file # <<>> /\ config_file[1] \in DOMAIN env.fs
        THEN _load_from_file(env.fs, config_file[1])
        ELSE PRAgentConfig,
        env.os)

\* load_dotenv(env_file) when _find_env_file finds a .env file: the variables
\* os.environ does not have yet are set from it
load_dotenv(env) ==
    IF env.dotenv = <<>> THEN env
    ELSE [env EXCEPT !.os = [n \in DOMAIN env.os |->
                                IF env.os[n] = <<>> /\ n \in DOMAIN env.dotenv[1]
                                THEN <<env.dotenv[1][n]>> ELSE env.os[n]]]

RECURSIVE ProviderLoop(_, _)
ProviderLoop(c, providers) ==
    IF providers = <<>> THEN <<>>
    ELSE LET git_config == c[providers[1]]
         IN  (IF git_config.enabled /\ ~Truthy(git_config.token)
              THEN <<providers[1] \o " token is required">>
              ELSE <<>>)
             \o ProviderLoop(c, Tail(providers))

validate_config(c, fs) ==
    (IF c.analyzers.ai_enabled /\ ~Truthy(c.gemini_api_key)
     THEN <<"Gemini API key is required when AI analysis is enabled">>
     ELSE <<>>)
    \o ProviderLoop(c, <<"github", "gitlab", "bitbucket">>)
    \o (IF ~(0 <= c.analyzers.ai_temperature /\ c.analyzers.ai_temperature <= 20)
        THEN <<"AI temperature must be between 0.0 and 2.0">> ELSE <<>>)
    \o (IF c.analyzers.ai_max_tokens < 100
        THEN <<"AI max tokens must be at least 100">> ELSE <<>>)
    \o (IF ~(0 <= c.review.min_confidence_threshold
             /\ c.review.min_confidence_threshold <= 10)
        THEN <<"Minimum confidence threshold must be between 0.0 and 1.0">> ELSE <<>>)
    \o (IF Truthy(c.analyzers.eslint_config_file)
           /\ c.analyzers.eslint_config_file[1] \notin DOMAIN fs
        THEN <<"ESLint config file not found">> ELSE <<>>)

\* the argument names in the order of the dict, with the attribute each sets;
\* the third element of a path says the value is negated
arg_mapping ==
    << <<"debug", <<"debug">> >>,
       <<"verbose", <<"verbose">> >>,
       <<"no_ai", <<"analyzers", "ai_enabled", "not">> >>,
       <<"no_static", <<"analyzers", "flake8_enabled", "not">> >>,
       <<"no_inline", <<"review", "post_inline_comments", "not">> >>,
       <<"no_summary", <<"review", "post_summary", "not">> >>,
       <<"ai_model", <<"analyzers", "ai_model">> >>,
       <<"max_comments", <<"review", "max_inline_comments">> >>,
       <<"confidence_threshold", <<"review", "min_confidence_threshold">> >> >>

\* faulty variant: the value of a flag is stored as given, not negated
RECURSIVE UpdateLoop_AsGiven(_, _, _)
UpdateLoop_AsGiven(c, args, mapping) ==
    IF mapping = <<>> THEN c
    ELSE LET arg_name    == mapping[1][1]
             config_path == mapping[1][2]
             given       == arg_name \in DOMAIN args /\ args[arg_name] # <<>>
             value       == args[arg_name][1]
         IN  UpdateLoop_AsGiven(
                 IF ~given THEN c
                 ELSE IF Len(config_path) = 1
                 THEN [c EXCEPT ![config_path[1]] = value]
                 ELSE [c EXCEPT ![config_path[1]][config_path[2]] = value],
                 args, Tail(mapping))

\* the loop of update_from_args; an argument is <<>> for None and <<v>> for v
RECURSIVE UpdateLoop(_, _, _)
UpdateLoop(c, args, mapping) ==
    IF mapping = <<>> THEN c
    ELSE LET arg_name    == mapping[1][1]
             config_path == mapping[1][2]
             given       == arg_name \in DOMAIN args /\ args[arg_name] # <<>>
             value       == IF Len(config_path) = 3 THEN ~args[arg_name][1]
                            ELSE args[arg_name][1]
         IN  UpdateLoop(
                 IF ~given THEN c
                 ELSE IF Len(config_path) = 1
                 THEN [c EXCEPT ![config_path[1]] = value]
                 ELSE [c EXCEPT ![config_path[1]][config_path[2]] = value],
                 args, Tail(mapping))

update_from_args(c, args) == UpdateLoop(c, args, arg_mapping)


-----------------------------------------------------------------------------
(* The process environment a ConfigManager is built in *)

SecretNames == {"GITHUB_TOKEN", "GITLAB_TOKEN", "BITBUCKET_APP_PASSWORD", "GEMINI_API_KEY"}

EnvNames == SecretNames \cup {"DEFAULT_AI_MODEL", "MAX_DIFF_SIZE", "ENABLE_INLINE_COMMENTS"}

\* os.environ with the secrets of set and the settings of a dict
Environ(set, settings) ==
    [n \in EnvNames |-> IF n \in set THEN <<"secret">>
                        ELSE IF n \in DOMAIN settings THEN <<settings[n]>>
                        ELSE <<>>]

ConfigPath == "review.yaml"

\* what the YAML config file holds
ConfigFiles ==
    { [analyzers |-> [ai_enabled |-> FALSE, flake8_enabled |-> FALSE,
                      eslint_config_file |-> <<".eslintrc">>, no_such_key |-> 0],
       review    |-> [post_summary |-> FALSE]],
      [github    |-> [token |-> <<"secret">>, enabled |-> FALSE],
       review    |-> [post_inline_comments |-> FALSE, max_diff_size |-> 1]] }

\* a world: the settings in os.environ, the .env file (<<>> when there is
\* none) and the files that exist
Worlds ==
    { [settings |-> EmptyDict, dotenv |-> <<>>, fs |-> EmptyDict],
      [settings |-> [DEFAULT_AI_MODEL |-> "gpt-4o-mini"],
       dotenv   |-> << [GEMINI_API_KEY |-> "secret", GITHUB_TOKEN |-> "secret"] >>,
       fs       |-> EmptyDict],
      [settings |-> [MAX_DIFF_SIZE |-> "1", ENABLE_INLINE_COMMENTS |-> "no",
                     GEMINI_API_KEY |-> ""],
       dotenv   |-> <<>>,
       fs       |-> [p \in {ConfigPath} |-> <<>>]],
      [settings |-> [MAX_DIFF_SIZE |-> "many", ENABLE_INLINE_COMMENTS |-> "True"],
       dotenv   |-> << [BITBUCKET_APP_PASSWORD |-> "secret"] >>,
       fs       |-> EmptyDict] }
    \cup { [settings |-> EmptyDict, dotenv |-> <<>>,
            fs |-> [p \in {ConfigPath} |-> <<data>>]] : data \in ConfigFiles }

\* the secrets set in os.environ: all, all but one, none
SecretSets == {SecretNames \ x : x \in {{}, SecretNames} \cup {{n} : n \in SecretNames}}

Environs ==
    { [os |-> Environ(set, w.settings), dotenv |-> w.dotenv, fs |-> w.fs] :
        set \in SecretSets, w \in Worlds }

\* the dicts update_from_args is called with
ArgDicts ==
    { [no_ai |-> a, no_summary |-> a, no_static |-> b, no_inline |-> b,
       ai_model |-> o[1], confidence_threshold |-> o[2]] :
        a \in {<<>>, <<FALSE>>, <<TRUE>>}, b \in {<<>>, <<FALSE>>, <<TRUE>>},
        o \in { <<<<>>, <<>>>>, << <<"gpt-4">>, <<15>> >> } }
    \cup { EmptyDict, [debug |-> <<TRUE>>, no_ai |-> <<FALSE>>] }

\* ConfigManager(config_file, load_env)
NewConfigManager ==
    /\ last_call = <<>>
    /\ \E config_file \in {<<>>, <<ConfigPath>>}, load_env \in BOOLEAN :
          /\ environ' = IF load_env THEN load_dotenv(environ) ELSE environ
          /\ config' = << _load_config(environ', config_file) >>
          /\ last_call' = << [op  |-> "ConfigManager",
                              arg |-> [config_file |-> config_file, load_env |-> load_env],
                              ret |-> <<>>] >>
    /\ UNCHANGED <<pc, nread, diff_text, parse_vars, patch_set, error, adapter_calls>>

UpdateFromArgs ==
    /\ last_call = <<>>
    /\ config # <<>>
    /\ \E args \in ArgDicts :
          /\ config' = << update_from_args(config[1], args) >>
          /\ last_call' = << [op |-> "update_from_args", arg |-> args, ret |-> <<>>] >>
    /\ UNCHANGED <<pc, nread, diff_text, parse_vars, patch_set, error, environ,
                   adapter_calls>>

ValidateConfig ==
    /\ config # <<>>
    /\ Call("validate_config", <<>>, validate_config(config[1], environ.fs))

InitConfig ==
    /\ pc = "ready"
    /\ nread = 0
    /\ diff_text = "empty"
    /\ files = <<>>
    /\ current_file = 0
    /\ patch_info = FALSE
    /\ source_file = <<>>
    /\ in_hunk = FALSE
    /\ hunk = NoHunk
    /\ source_line_no = 0
    /\ target_line_no = 0
    /\ patch_set = <<>>
    /\ error = ""
    /\ last_call = <<>>
    /\ environ \in Environs
    /\ config = <<>>
    /\ adapter_calls = <<>>

NextConfig ==
    \/ NewConfigManager
    \/ UpdateFromArgs
    \/ ValidateConfig
    \/ Return

SpecConfig == InitConfig /\ [][NextConfig]_vars

-----------------------------------------------------------------------------
(* Properties of the configuration *)

\* no API key and no provider token is set in the environment
NoSecrets == \A n \in SecretNames : ~Truthy(environ.os[n])

\* C21: a ConfigManager built with load_env=False and no config file has
\* analyzers.ai_enabled = True, analyzers.ai_model = 'gpt-4o-mini',
\* review.post_summary = True and review.post_inline_comments = True, and
\* validate_config() returns at least one error when the environment sets no
\* API key and no provider token.
C21_DefaultConfiguration ==
    /\ (Called("ConfigManager") /\ ~Arg.load_env /\ Arg.config_file = <<>>) =>
          /\ config[1].analyzers.ai_enabled = TRUE
          /\ config[1].analyzers.ai_model = "gpt-4o-mini"
          /\ config[1].review.post_summary = TRUE
          /\ config[1].review.post_inline_comments = TRUE
    /\ (Called("validate_config") /\ NoSecrets) => Len(Ret) > 0

\* the argument dict has the key with a value other than None
Given(args, k) == k \in DOMAIN args /\ args[k] # <<>>

\* the setting is the argument (negated for a flag) when it is given, and is
\* what it was when it is not
Overwrites(args, k, old, new, negated) ==
    IF Given(args, k)
    THEN new = (IF negated THEN ~args[k][1] ELSE args[k][1])
    ELSE new = old

\* a step that is a call of update_from_args
UpdateStep == last_call = <<>> /\ last_call' # <<>> /\ last_call'[1].op = "update_from_args"

\* C29: update_from_args overwrites a setting whenever the argument is present
\* with a value other than None, False included: afterwards ai_enabled = not
\* no_ai, flake8_enabled = not no_static, post_inline_comments = not no_inline,
\* post_summary = not no_summary, whatever the file or the environment gave,
\* and ai_model is the ai_model argument; an argument that is None or absent
\* leaves its setting as it was.
C29_ArgumentsOverwrite ==
    [][UpdateStep =>
        LET args == last_call'[1].arg
            old  == config[1]
            new  == config'[1]
        IN  /\ Overwrites(args, "no_ai", old.analyzers.ai_enabled,
                          new.analyzers.ai_enabled, TRUE)
            /\ Overwrites(args, "no_static", old.analyzers.flake8_enabled,
                          new.analyzers.flake8_enabled, TRUE)
            /\ Overwrites(args, "no_inline", old.review.post_inline_comments,
                          new.review.post_inline_comments, TRUE)
            /\ Overwrites(args, "no_summary", old.review.post_summary,
                          new.review.post_summary, TRUE)
            /\ Overwrites(args, "ai_model", old.analyzers.ai_model,
                          new.analyzers.ai_model, FALSE)
            /\ Overwrites(args, "confidence_threshold",
                          old.review.min_confidence_threshold,
                          new.review.min_confidence_threshold, FALSE)
            /\ Overwrites(args, "debug", old.debug, new.debug, FALSE)
            /\ new.github = old.github /\ new.gemini_api_key = old.gemini_api_key
    ]_vars

\* update_from_args was called with no_ai = False and no_static = None on a
\* configuration whose file disabled both: the first is enabled again, the
\* second is still disabled
C29_Witness ==
    /\ Called("update_from_args")
    /\ Given(Arg, "no_ai") /\ Arg.no_ai = <<FALSE>>
    /\ "no_static" \in DOMAIN Arg /\ Arg.no_static = <<>>
    /\ config[1].analyzers.ai_enabled
    /\ ~config[1].analyzers.flake8_enabled

-----------------------------------------------------------------------------
(* Reporter.post_review and the adapter it posts through *)

\* inline items of a review and adapter calls of one post_review
MaxItems == 2

\* bool(v) of an Optional[int]
TruthyInt(v) == v # None /\ v # 0

ReviewComment(body, file_path, line_number, position, severity) ==
    [body |-> body, file_path |-> file_path, line_number |-> line_number,
     position |-> position, severity |-> severity]

\* faulty variant: a positioned comment is addressed by line as well
payload_BothSchemes(comment) ==
    LET base == [body |-> comment.body, path |-> comment.file_path]
        line == DictSet(DictSet(base, "line", comment.line_number), "side", "RIGHT")
    IN  IF comment.position # None
        THEN DictSet(line, "position", comment.position)
        ELSE IF comment.line_number # None THEN line
        ELSE base

\* the payload GitHubAdapter.post_inline_comment posts
payload(comment) ==
    LET base == [body |-> comment.body, path |-> comment.file_path]
    IN  IF comment.position # None
        THEN DictSet(base, "position", comment.position)
        ELSE IF comment.line_number # None
        THEN DictSet(DictSet(base, "line", comment.line_number), "side", "RIGHT")
        ELSE base

\* The k-th call on the adapter, with k = Len(calls) + 1, raises when k is in
\* failing; a call is recorded whether it raises or not
post_review_comment(calls, body, failing) ==
    Append(calls, [method |-> "post_review_comment", body |-> body,
                   raised |-> (Len(calls) + 1) \in failing])

post_inline_comment(calls, comment, failing) ==
    Append(calls, [method |-> "post_inline_comment", comment |-> comment,
                   payload |-> payload(comment),
                   raised |-> (Len(calls) + 1) \in failing])

\* _format_static_issue_comment: the texts the model tells comments apart by
_format_static_issue_comment(issue) == <<issue.tool, issue.message>>

\* _format_ai_feedback_comment calls feedback.priority.title(), which raises
\* for a priority of None
FormatRaises(feedback) == feedback.priority = <<>>

_format_ai_feedback_comment(feedback) == <<"AI Review", feedback.message>>

\* r is the state of post_review: the adapter calls so far, results["errors"]
\* and inline_count
RECURSIVE StaticLoop(_, _, _)
StaticLoop(static_issues, r, failing) ==
    IF static_issues = <<>> THEN r
    ELSE LET issue == static_issues[1]
             calls == post_inline_comment(r.calls,
                          ReviewComment(_format_static_issue_comment(issue),
                                        issue.file_path, issue.line_number, None,
                                        issue.severity),
                          failing)
         IN  StaticLoop(Tail(static_issues),
                 IF ~(TruthyInt(issue.line_number) /\ issue.file_path # "") THEN r
                 ELSE IF calls[Len(calls)].raised
                 THEN [r EXCEPT !.calls = calls,
                                !.errors = Append(@, "Failed to post inline comment")]
                 ELSE [r EXCEPT !.calls = calls, !.inline_count = @ + 1],
                 failing)

RECURSIVE FeedbackLoop(_, _, _)
FeedbackLoop(ai_feedback, r, failing) ==
    IF ai_feedback = <<>> THEN r
    ELSE LET feedback == ai_feedback[1]
             calls    == post_inline_comment(r.calls,
                             ReviewComment(_format_ai_feedback_comment(feedback),
                                           feedback.file_path[1], feedback.line_number,
                                           feedback.position, feedback.severity[1]),
                             failing)
         IN  FeedbackLoop(Tail(ai_feedback),
                 IF ~(TruthyInt(feedback.line_number) /\ Truthy(feedback.file_path)
                      /\ feedback.severity \in {<<"warning">>, <<"error">>})
                 THEN r
                 ELSE IF FormatRaises(feedback)
                 THEN [r EXCEPT !.errors = Append(@, "Failed to post AI feedback")]
                 ELSE IF calls[Len(calls)].raised
                 THEN [r EXCEPT !.calls = calls,
                                !.errors = Append(@, "Failed to post AI feedback")]
                 ELSE [r EXCEPT !.calls = calls, !.inline_count = @ + 1],
                 failing)

\* faulty variant: the AI feedback is commented before the static issues
InlineComments_FeedbackFirst(static_issues, ai_feedback, r, failing) ==
    StaticLoop(static_issues, FeedbackLoop(ai_feedback, r, failing), failing)

\* the two loops of `if post_inline:`
InlineComments(static_issues, ai_feedback, r, failing) ==
    FeedbackLoop(ai_feedback, StaticLoop(static_issues, r, failing), failing)

\* generate_summary calls severity.title() on every severity it counted, which
\* raises for a severity of None
SummaryRaises(ai_feedback) ==
    \E k \in 1..Len(ai_feedback) : ai_feedback[k].severity = <<>>

\* post_review: the results dict and the calls it made on the adapter
post_review(static_issues, ai_feedback, post_inline, post_summary, failing) ==
    LET r0 == [calls |-> <<>>, errors |-> <<>>, inline_count |-> 0]
        c1 == post_review_comment(<<>>, "summary", failing)
        r1 == IF ~post_summary THEN r0
              ELSE IF c1[1].raised
              THEN [r0 EXCEPT !.calls = c1,
                              !.errors = Append(@, "Failed to post summary")]
              ELSE [r0 EXCEPT !.calls = c1]
        r2 == IF post_inline
              THEN InlineComments(static_issues, ai_feedback, r1, failing)
              ELSE r1
    IN  IF SummaryRaises(ai_feedback)
        THEN [calls   |-> <<>>,
              results |-> [summary_posted  |-> FALSE,
                           inline_comments |-> 0,
                           errors          |-> <<"Review posting failed">>]]
        ELSE [calls   |-> r2.calls,
              results |-> [summary_posted  |-> post_summary /\ ~c1[1].raised,
                           inline_comments |-> r2.inline_count,
                           errors          |-> r2.errors]]

\* the static issues and AI feedback items of the model; the messages tell
\* them apart
AnalysisIssues ==
    { [tool |-> "flake8", file_path |-> "x.py", line_number |-> 2,
       severity |-> "error", message |-> "s1"],
      [tool |-> "bandit", file_path |-> "y.go", line_number |-> 1,
       severity |-> "info", message |-> "s2"],
      [tool |-> "eslint", file_path |-> "x.py", line_number |-> 0,
       severity |-> "error", message |-> "s3"] }

AIFeedbacks ==
    { [file_path |-> <<"x.py">>, line_number |-> 2, position |-> 3,
       severity |-> <<"warning">>, priority |-> <<"medium">>, message |-> "a1"],
      [file_path |-> <<"y.go">>, line_number |-> 1, position |-> None,
       severity |-> <<"error">>, priority |-> <<"high">>, message |-> "a2"],
      [file_path |-> <<"x.py">>, line_number |-> 2, position |-> 3,
       severity |-> <<"info">>, priority |-> <<"low">>, message |-> "a3"],
      [file_path |-> <<>>, line_number |-> None, position |-> None,
       severity |-> <<"warning">>, priority |-> <<"medium">>, message |-> "a4"],
      [file_path |-> <<"x.py">>, line_number |-> 2, position |-> 3,
       severity |-> <<"error">>, priority |-> <<>>, message |-> "a5"],
      [file_path |-> <<"x.py">>, line_number |-> 2, position |-> None,
       severity |-> <<>>, priority |-> <<"medium">>, message |-> "a6"] }

\* the lists of at most MaxItems elements of a set
ListsOf(S) == UNION {[1..n -> S] : n \in 0..MaxItems}

PostReview ==
    /\ last_call = <<>>
    /\ \E static_issues \in ListsOf(AnalysisIssues), ai_feedback \in ListsOf(AIFeedbacks),
          post_inline \in BOOLEAN, post_summary \in BOOLEAN,
          failing \in SUBSET (1..(2 * MaxItems + 1)) :
          LET r == post_review(static_issues, ai_feedback, post_inline, post_summary,
                               failing)
          IN  /\ adapter_calls' = r.calls
              /\ last_call' = << [op  |-> "post_review",
                                  arg |-> [static_issues |-> static_issues,
                                           ai_feedback   |-> ai_feedback,
                                           post_inline   |-> post_inline,
                                           post_summary  |-> post_summary],
                                  ret |-> r.results] >>
    /\ UNCHANGED <<pc, nread, diff_text, parse_vars, patch_set, error, environ, config>>

\* The caller drops the results; the adapter has sent the calls
ReturnReview ==
    /\ last_call # <<>>
    /\ last_call' = <<>>
    /\ adapter_calls' = <<>>
    /\ UNCHANGED <<pc, nread, diff_text, parse_vars, patch_set, error, environ, config>>

InitReporter ==
    /\ pc = "ready"
    /\ nread = 0
    /\ diff_text = "empty"
    /\ files = <<>>
    /\ current_file = 0
    /\ patch_info = FALSE
    /\ source_file = <<>>
    /\ in_hunk = FALSE
    /\ hunk = NoHunk
    /\ source_line_no = 0
    /\ target_line_no = 0
    /\ patch_set = <<>>
    /\ error = ""
    /\ last_call = <<>>
    /\ environ = <<>>
    /\ config = <<>>
    /\ adapter_calls = <<>>

NextReporter ==
    \/ PostReview
    \/ ReturnReview

SpecReporter == InitReporter /\ [][NextReporter]_vars

-----------------------------------------------------------------------------
(* Properties of the reporter *)

\* the calls of a method among the adapter calls, in order
CallsOf(method) == SelectSeq(adapter_calls, LAMBDA c : c.method = method)

Count(seq, Test(_)) == Cardinality({k \in 1..Len(seq) : Test(seq[k])})

EligibleIssue(issue) == issue.line_number \notin {None, 0} /\ issue.file_path # ""

EligibleFeedback(feedback) ==
    /\ feedback.line_number \notin {None, 0}
    /\ feedback.file_path # <<>>
    /\ feedback.severity \in {<<"warning">>, <<"error">>}

\* the messages of the items of the model
Messages == {i.message : i \in AnalysisIssues \cup AIFeedbacks}

\* the inline comments attempted for the item with message m
Attempts(m) == Count(CallsOf("post_inline_comment"), LAMBDA c : c.comment.body[2] = m)

\* C25: when summary generation succeeds, a failing adapter call does not stop
\* the rest: every eligible item (static issue with file path and line number;
\* AI feedback with file path, line number and severity warning or error) is
\* attempted exactly once, results['inline_comments'] is the number of
\* post_inline_comment calls that returned, results['errors'] has exactly one
\* entry per failed adapter call, and results['summary_posted'] is true exactly
\* when post_summary is set and post_review_comment returned.
C25_EveryItemAttempted ==
    (Called("post_review") /\ ~SummaryRaises(Arg.ai_feedback)) =>
        /\ Arg.post_inline =>
              \A m \in Messages :
                  Attempts(m) = Count(Arg.static_issues,
                                      LAMBDA i : EligibleIssue(i) /\ i.message = m)
                                + Count(Arg.ai_feedback,
                                        LAMBDA f : EligibleFeedback(f) /\ f.message = m)
        /\ Ret.inline_comments = Count(CallsOf("post_inline_comment"),
                                       LAMBDA c : ~c.raised)
        /\ Len(Ret.errors) = Count(adapter_calls, LAMBDA c : c.raised)
        /\ Ret.summary_posted <=>
              /\ Arg.post_summary
              /\ Count(CallsOf("post_review_comment"), LAMBDA c : ~c.raised) = 1

\* s is t with some elements left out, the others in the order of t
RECURSIVE IsSubsequence(_, _)
IsSubsequence(s, t) ==
    IF s = <<>> THEN TRUE
    ELSE IF t = <<>> THEN FALSE
    ELSE IF s[1] = t[1] THEN IsSubsequence(Tail(s), Tail(t))
    ELSE IsSubsequence(s, Tail(t))

\* the messages of the items of a list, in order
MessagesOf(items) == [k \in 1..Len(items) |-> items[k].message]

\* the messages of the inline comments attempted for one of the two groups
AttemptedMessages(group) ==
    LET inline == SelectSeq(CallsOf("post_inline_comment"),
                            LAMBDA c : (c.comment.body[1] = "AI Review") <=> (group = "ai"))
    IN  [k \in 1..Len(inline) |-> inline[k].comment.body[2]]

IsStaticComment(c) == c.method = "post_inline_comment" /\ c.comment.body[1] # "AI Review"

IsFeedbackComment(c) == c.method = "post_inline_comment" /\ c.comment.body[1] = "AI Review"

\* C26: post_review makes its adapter calls in a fixed order: the summary
\* comment before any inline comment, all inline comments of static issues
\* before any inline comment of AI feedback, each group in the order of its
\* input list; with post_inline false no post_inline_comment call is made and
\* with post_summary false no post_review_comment call is made.
C26_OrderOfAdapterCalls ==
    Called("post_review") =>
        /\ \A i, j \in 1..Len(adapter_calls) :
              i < j =>
                 /\ adapter_calls[j].method # "post_review_comment"
                 /\ ~(IsFeedbackComment(adapter_calls[i]) /\ IsStaticComment(adapter_calls[j]))
        /\ IsSubsequence(AttemptedMessages("static"), MessagesOf(Arg.static_issues))
        /\ IsSubsequence(AttemptedMessages("ai"), MessagesOf(Arg.ai_feedback))
        /\ ~Arg.post_inline => CallsOf("post_inline_comment") = <<>>
        /\ ~Arg.post_summary => CallsOf("post_review_comment") = <<>>

\* a summary, two different static issues and an AI feedback item were all
\* attempted, the first static comment raising
C26_Witness ==
    /\ Called("post_review")
    /\ CallsOf("post_review_comment") # <<>>
    /\ AttemptedMessages("static") = <<"s2", "s1">>
    /\ AttemptedMessages("ai") # <<>>
    /\ adapter_calls[2].raised

\* C28: GitHubAdapter.post_inline_comment addresses a comment by one scheme:
\* with a position the payload has 'position' and neither 'line' nor 'side';
\* without one and with a line number it has 'line' = line_number and 'side' =
\* 'RIGHT' and no 'position'. The comments post_review builds for static issues
\* have no position, those for AI feedback have the feedback's position.
C28_OneAddressingScheme ==
    Called("post_review") =>
        \A k \in 1..Len(adapter_calls) :
            LET c == adapter_calls[k]
            IN  c.method = "post_inline_comment" =>
                    /\ c.comment.position # None =>
                          /\ "position" \in DOMAIN c.payload
                          /\ c.payload.position = c.comment.position
                          /\ DOMAIN c.payload \cap {"line", "side"} = {}
                    /\ (c.comment.position = None /\ c.comment.line_number # None) =>
                          /\ {"line", "side"} \subseteq DOMAIN c.payload
                          /\ c.payload.line = c.comment.line_number
                          /\ c.payload.side = "RIGHT"
                          /\ "position" \notin DOMAIN c.payload
                    /\ IsStaticComment(c) => c.comment.position = None
                    /\ IsFeedbackComment(c) =>
                          \A f \in AIFeedbacks :
                              f.message = c.comment.body[2] => c.comment.position = f.position

\* comments of both schemes were posted: a static issue by line, an AI
\* feedback item by its position and another, which has none, by line
C28_Witness ==
    /\ Called("post_review")
    /\ \E k \in 1..Len(adapter_calls) :
          IsStaticComment(adapter_calls[k]) /\ "line" \in DOMAIN adapter_calls[k].payload
    /\ \E k \in 1..Len(adapter_calls) :
          /\ IsFeedbackComment(adapter_calls[k])
          /\ "position" \in DOMAIN adapter_calls[k].payload
          /\ adapter_calls[k].payload.position = 3
    /\ \E k \in 1..Len(adapter_calls) :
          IsFeedbackComment(adapter_calls[k]) /\ "side" \in DOMAIN adapter_calls[k].payload

-----------------------------------------------------------------------------
(* Properties of the constructor and of the line records, continued *)

\* C22: an argument that is None is rejected by the constructor before any
\* parsing is attempted, and every text argument is accepted: the constructor
\* raises only for the None argument, with no line read and no patch set.
C22_OnlyNonTextRejected ==
    pc = "raised" => (diff_text = "None" /\ patch_set = <<>> /\ files = <<>>)

\* the number of lines in the hunks before the n-th
RECURSIVE LinesBefore(_, _)
LinesBefore(hunks, n) ==
    IF n = 1 THEN 0 ELSE LinesBefore(hunks, n - 1) + Len(hunks[n - 1].lines)

\* how many of the line changes off+1 .. off+j have one of the types
Ordinal(lcs, off, j, types) ==
    Cardinality({m \in 1..j : lcs[off + m].change_type \in types})

\* C23: within each hunk the line numbers follow the counters of the hunk
\* header: the k-th line that is added or context has target line number
\* target start + k - 1, the k-th line that is removed or context has source
\* line number source start + k - 1 (so an added line does not advance the
\* source counter nor a removed line the target counter), and every line
\* advances the position by one.
C23_LineNumbersFollowHeader ==
    Called("get_all_file_analyses") =>
        \A i \in 1..Len(Ret) :
            \A n \in 1..Len(Parsed[i].hunks) :
                LET h   == Parsed[i].hunks[n]
                    off == LinesBefore(Parsed[i].hunks, n)
                    lcs == Ret[i].line_changes
                IN  \A j \in 1..Len(h.lines) :
                        LET c == lcs[off + j]
                        IN  /\ c.position = off + j
                            /\ c.change_type \in {"added", "context"} =>
                                  c.target_line_no = h.target_start
                                      + Ordinal(lcs, off, j, {"added", "context"}) - 1
                            /\ c.change_type \in {"removed", "context"} =>
                                  c.source_line_no = h.source_start
                                      + Ordinal(lcs, off, j, {"removed", "context"}) - 1

\* the lines of the hunk of the one section, as unidiff holds them
SectionLines == patch_set[1][1].hunks[1].lines

\* the indexes of the hunk lines whose leading marker is m
Marked(m) == {j \in 1..Len(SectionLines) : SectionLines[j].line_type = m}

\* the line consists of its marker alone
Lone(j) == SectionLines[j].value = <<NL>>

\* the entries of a list of (position, line number, content) with a position
EntriesAt(list, j) == {k \in 1..Len(list) : list[k][1] = j}

-----------------------------------------------------------------------------
(* PRReviewCLI.run and _review_pr *)

\* what parse_args gives for a command line without options but the four of
\* the pull request; an option is <<>> for None and <<v>> for v
DefaultArgs ==
    [provider |-> <<"github">>, owner |-> <<"o">>, repo |-> <<"r">>, pr |-> <<7>>,
     config |-> <<>>, validate_config |-> <<FALSE>>, generate_config |-> <<>>,
     no_ai |-> <<FALSE>>, no_static |-> <<FALSE>>, ai_model |-> <<"gemini-1.5-flash">>,
     confidence_threshold |-> <<>>, no_inline |-> <<FALSE>>, no_summary |-> <<FALSE>>,
     max_comments |-> <<>>, dry_run |-> <<FALSE>>, verbose |-> <<FALSE>>,
     debug |-> <<FALSE>>]

\* all([args.provider, args.owner, args.repo, args.pr])
all_required(args) ==
    /\ Truthy(args.provider) /\ Truthy(args.owner) /\ Truthy(args.repo)
    /\ args.pr # <<>> /\ args.pr[1] # 0

\* the outcome of a step of the CLI: the exit code, the exception that left
\* run ("" for none), the calls made on the adapter and the analyzers run
Outcome(code, calls, analyzers) ==
    [code |-> code, raised |-> "", calls |-> calls, analyzers |-> analyzers]

\* _post_review: post_inline and post_summary from the flags and the
\* configuration, exit code 1 when the reporter recorded errors
_post_review(c, args, calls, analyzers, static_issues, ai_feedback, failing) ==
    LET r == post_review(static_issues, ai_feedback,
                         ~args.no_inline[1] /\ c.review.post_inline_comments,
                         ~args.no_summary[1] /\ c.review.post_summary,
                         failing)
    IN  Outcome(IF r.results.errors # <<>> THEN 1 ELSE 0, calls \o r.calls, analyzers)

\* _print_results calls feedback.severity.upper(), which raises for None
_print_results(ai_feedback, calls, analyzers) ==
    Outcome(IF SummaryRaises(ai_feedback) THEN 1 ELSE 0, calls, analyzers)

\* faulty variant: the size of the diff is not looked at
AnalyzeAndReport_AnySize(c, args, w, calls) ==
    LET static     == ~args.no_static[1] /\ c.analyzers.flake8_enabled
        ai         == ~args.no_ai[1] /\ c.analyzers.ai_enabled
        analyzed   == static_analysis_step(w.diff, static)
        issues     == IF analyzed = <<>> THEN <<>> ELSE w.static_issues
        feedback   == IF ai THEN w.ai_feedback ELSE <<>>
        analyzers  == (IF static THEN <<"static">> ELSE <<>>)
                      \o (IF ai THEN <<"ai">> ELSE <<>>)
    IN  IF args.dry_run[1] THEN _print_results(feedback, calls, analyzers)
        ELSE _post_review(c, args, calls, analyzers, issues, feedback, w.failing)

\* _review_pr from the parsed diff on: the size check, the static analysis
\* over the added lines, the AI analysis, and printing or posting
AnalyzeAndReport(c, args, w, calls) ==
    LET stats      == get_statistics(w.diff)
        static     == ~args.no_static[1] /\ c.analyzers.flake8_enabled
        ai         == ~args.no_ai[1] /\ c.analyzers.ai_enabled
        analyzed   == static_analysis_step(w.diff, static)
        issues     == IF analyzed = <<>> THEN <<>> ELSE w.static_issues
        feedback   == IF ai THEN w.ai_feedback ELSE <<>>
        analyzers  == (IF static THEN <<"static">> ELSE <<>>)
                      \o (IF ai THEN <<"ai">> ELSE <<>>)
    IN  IF stats.additions + stats.deletions > c.review.max_diff_size
        THEN Outcome(0, calls, <<>>)
        ELSE IF args.dry_run[1] THEN _print_results(feedback, calls, analyzers)
        ELSE _post_review(c, args, calls, analyzers, issues, feedback, w.failing)

\* w is what the adapter and the analyzers do: w.credentials is what
\* validate_credentials returns, w.text what get_pr_diff returns ("raise" when
\* it or get_pr_info raises, "malformed" for a text unidiff rejects), w.diff
\* the patch set of a text that parses
_review_pr(c, args, w) ==
    LET provider == args.provider[1]
        c1 == << [method |-> "validate_credentials", ret |-> w.credentials] >>
        c2 == Append(c1, [method |-> "get_pr_info"])
        c3 == Append(c2, [method |-> "get_pr_diff", ret |-> w.text])
    IN  IF provider = "bitbucket" THEN Outcome(1, <<>>, <<>>)
        ELSE IF ~Truthy(c[provider].token) THEN Outcome(1, <<>>, <<>>)
        ELSE IF ~w.credentials THEN Outcome(1, c1, <<>>)
        ELSE IF w.text = "raise" THEN Outcome(1, c2, <<>>)
        ELSE IF w.text \in {"empty", "whitespace"} THEN Outcome(0, c3, <<>>)
        ELSE IF w.text = "malformed" THEN Outcome(1, c3, <<>>)
        ELSE AnalyzeAndReport(c, args, w, c3)

\* faulty variant: the review goes ahead with configuration errors
ReviewCommand_Unvalidated(env, args, w) ==
    LET c == update_from_args(_load_config(env, args.config), args)
    IN  IF ~all_required(args) THEN Outcome(1, <<>>, <<>>)
        ELSE _review_pr(c, args, w)

\* run when neither --validate-config nor --generate-config is given; env is
\* the environment after load_dotenv
ReviewCommand(env, args, w) ==
    LET c == update_from_args(_load_config(env, args.config), args)
    IN  IF validate_config(c, env.fs) # <<>> THEN Outcome(1, <<>>, <<>>)
        ELSE IF ~all_required(args) THEN Outcome(1, <<>>, <<>>)
        ELSE _review_pr(c, args, w)

\* run(args) after parse_args; _validate_config builds a ConfigManager of its
\* own, _generate_config one without the .env file
run(env, args, w) ==
    IF args.validate_config[1]
    THEN Outcome(IF validate_config(_load_config(load_dotenv(env), args.config),
                                    env.fs) # <<>> THEN 1 ELSE 0, <<>>, <<>>)
    ELSE IF Truthy(args.generate_config) THEN Outcome(0, <<>>, <<>>)
    ELSE ReviewCommand(load_dotenv(env), args, w)

\* _config_to_dict: what save_config writes
_config_to_dict(c) ==
    [github    |-> [enabled |-> c.github.enabled],
     analyzers |-> [k \in DOMAIN c.analyzers \ {"eslint_config_file"} |-> c.analyzers[k]],
     review    |-> c.review]

\* the pull request arguments: all four given, for each provider, and each of
\* them missing; --pr 0 is given and counts as missing
PullArgs ==
    { <<p, <<"o">>, <<"r">>, <<7>> >> : p \in {<<"github">>, <<"gitlab">>, <<"bitbucket">>} }
    \cup { << <<>>, <<"o">>, <<"r">>, <<7>> >>, << <<"github">>, <<>>, <<"r">>, <<7>> >>,
           << <<"github">>, <<"o">>, <<>>, <<7>> >>, << <<"github">>, <<"o">>, <<"r">>, <<>> >>,
           << <<"github">>, <<"o">>, <<"r">>, <<0>> >> }

\* the other options of a command line
OptionArgs ==
    { [DefaultArgs EXCEPT !.dry_run = <<TRUE>>],
      [DefaultArgs EXCEPT !.validate_config = <<TRUE>>],
      [DefaultArgs EXCEPT !.generate_config = <<ConfigPath>>],
      [DefaultArgs EXCEPT !.no_ai = <<TRUE>>, !.no_summary = <<TRUE>>],
      [DefaultArgs EXCEPT !.no_static = <<TRUE>>, !.no_inline = <<TRUE>>],
      [DefaultArgs EXCEPT !.confidence_threshold = <<15>>],
      DefaultArgs }

\* every option with the four pull request arguments given, and the plain
\* command line and the two special commands with one of them missing
Namespaces ==
    { [o EXCEPT !.provider = p[1], !.owner = p[2], !.repo = p[3], !.pr = p[4],
                !.config = f] :
        o \in OptionArgs, p \in {q \in PullArgs : Truthy(q[1])
                                     /\ Truthy(q[2]) /\ Truthy(q[3]) /\ q[4] = <<7>>},
        f \in {<<>>, <<ConfigPath>>} }
    \cup
    { [o EXCEPT !.provider = p[1], !.owner = p[2], !.repo = p[3], !.pr = p[4]] :
        o \in {a \in OptionArgs : ~a.dry_run[1] /\ ~a.no_ai[1] /\ ~a.no_static[1]
                                   /\ a.confidence_threshold = <<>>},
        p \in PullArgs }

\* the pull request's diff when it parses: one added line, an added and a
\* removed line, one removed line
Diffs ==
    { << OneSection(NameX, bodies) >> :
        bodies \in { << <<"+", DefF>> >>, << <<"+", DefF>>, <<"-", DefF>> >>,
                     << <<"-", DefF>> >> } }

\* what the adapter and the analyzers do during one run
Behaviours ==
    { [credentials |-> v, text |-> t, diff |-> <<>>, static_issues |-> <<>>,
       ai_feedback |-> <<>>, failing |-> {}] :
        v \in BOOLEAN, t \in {"raise", "empty", "whitespace", "malformed"} }
    \cup
    { [credentials |-> TRUE, text |-> "text", diff |-> d, static_issues |-> s,
       ai_feedback |-> a, failing |-> x] :
        d \in Diffs,
        s \in {<<>>} \cup {<<i>> : i \in {j \in AnalysisIssues : j.line_number = 2}},
        a \in {<<>>} \cup {<<f>> : f \in {g \in AIFeedbacks : g.position = 3}},
        x \in SUBSET {1, 2} }

\* run gets as far as _review_pr; what the adapter and the analyzers do
\* matters to such a run only
Reviews(env, args) ==
    /\ ~args.validate_config[1]
    /\ ~Truthy(args.generate_config)
    /\ all_required(args)
    /\ validate_config(update_from_args(_load_config(load_dotenv(env), args.config), args),
                       env.fs) = <<>>

Idle == [credentials |-> FALSE, text |-> "raise", diff |-> <<>>, static_issues |-> <<>>,
         ai_feedback |-> <<>>, failing |-> {}]

\* PRReviewCLI.run(argv) for a command line that parses
Run ==
    /\ last_call = <<>>
    /\ \E args \in Namespaces :
       \E w \in (IF Reviews(environ, args) THEN Behaviours ELSE {Idle}) :
          LET special == args.validate_config[1] \/ Truthy(args.generate_config)
              loaded  == load_dotenv(environ)
              out     == run(environ, args, w)
          IN  /\ environ' =
                    IF args.validate_config[1] THEN loaded
                    ELSE IF Truthy(args.generate_config)
                    THEN [environ EXCEPT !.fs =
                             DictSet(@, args.generate_config[1],
                                     << _config_to_dict(_load_config(environ, <<>>)) >>)]
                    ELSE loaded
              /\ config' = IF special THEN config
                           ELSE << update_from_args(_load_config(loaded, args.config), args) >>
              /\ adapter_calls' = out.calls
              /\ last_call' = << [op |-> "run", arg |-> args, world |-> w, ret |-> out] >>
    /\ UNCHANGED <<pc, nread, diff_text, parse_vars, patch_set, error>>

\* run(argv) for a command line parse_args rejects, or --help: parse_args is
\* called before the try statement and leaves by SystemExit
RunUsageError ==
    /\ last_call = <<>>
    /\ last_call' = << [op |-> "run", arg |-> DefaultArgs, world |-> Idle,
                        ret |-> [code |-> 2, raised |-> "SystemExit",
                                 calls |-> <<>>, analyzers |-> <<>>]] >>
    /\ adapter_calls' = <<>>
    /\ UNCHANGED <<pc, nread, diff_text, parse_vars, patch_set, error, environ, config>>

NextCli ==
    \/ Run
    \/ RunUsageError
    \/ ReturnReview

SpecCli == InitConfig /\ [][NextCli]_vars


-----------------------------------------------------------------------------
(* Properties of the command line *)

\* what the adapter and the analyzers did during the last run
World == last_call[1].world

\* the comments the last run posted or tried to post
Posts == CallsOf("post_review_comment") \o CallsOf("post_inline_comment")

\* what get_pr_diff returned to the last run, <<>> when it was not called
Fetched == LET f == CallsOf("get_pr_diff") IN IF f = <<>> THEN <<>> ELSE <<f[1].ret>>

\* the '+' and '-' lines of the one section of a patch set
Changed(ps) ==
    Cardinality({j \in 1..Len(ps[1][1].hunks[1].lines) :
                    ps[1][1].hunks[1].lines[j].line_type \in {"+", "-"}})

\* the last run fetched a diff with more changed lines than max_diff_size
Oversized ==
    /\ Fetched = <<"text">>
    /\ Changed(World.diff) > config[1].review.max_diff_size

\* validate_credentials returned False to the last run
Refused ==
    LET v == CallsOf("validate_credentials") IN v # <<>> /\ ~v[1].ret

\* C27: in the review flow no comment is posted (neither post_review_comment
\* nor post_inline_comment is called on the adapter) when --dry-run is set,
\* when the fetched diff is empty or whitespace-only, when additions +
\* deletions exceeds review.max_diff_size, or when validate_credentials()
\* returned false; for an empty and for an oversized diff the flow also runs
\* no static or AI analysis and returns exit code 0.
C27_NoCommentWithoutReview ==
    Called("run") =>
        /\ Arg.dry_run[1] => Posts = <<>>
        /\ Refused => Posts = <<>>
        /\ (Fetched # <<>> /\ Fetched[1] \in {"empty", "whitespace"}) =>
              /\ Posts = <<>>
              /\ Ret.analyzers = <<>>
              /\ Ret.code = 0
        /\ Oversized =>
              /\ Posts = <<>>
              /\ Ret.analyzers = <<>>
              /\ Ret.code = 0

\* a run without --dry-run meets a diff of two changed lines under a
\* max_diff_size of 1, with a finding of each analyzer waiting to be posted
C27_Witness ==
    /\ Called("run")
    /\ ~Arg.dry_run[1]
    /\ Oversized
    /\ Changed(World.diff) = 2
    /\ World.static_issues # <<>>
    /\ World.ai_feedback # <<>>
    /\ Ret.code = 0
    /\ Len(adapter_calls) = 3


\* the last run was given --validate-config or --generate-config
Special == Arg.validate_config[1] \/ Truthy(Arg.generate_config)

\* what validate_config() reported to the last run: --validate-config
\* validates the configuration as loaded, a review the configuration after
\* update_from_args, and --generate-config does not validate
ValidationErrors ==
    IF Arg.validate_config[1]
    THEN validate_config(_load_config(environ, Arg.config), environ.fs)
    ELSE IF Truthy(Arg.generate_config) THEN <<>>
    ELSE validate_config(config[1], environ.fs)

\* the last run returned 1 and called nothing on the adapter
Rejected == Ret.raised = "" /\ Ret.code = 1 /\ adapter_calls = <<>>

=============================================================================
